---- MODULE Spec2Model ----
(***************************************************************************)
(* A model of the GitLab -> GitHub migration tool: the governed GitHub     *)
(* request (retry with backoff, quota headers, adaptive delay), the        *)
(* page-numbered list fetch, the branch/tag comparison, the per-repository *)
(* transfer job with its temporary workspace, the permission grants of a   *)
(* job, the repository cleanup tool, and the control server.               *)
(* Each part has its own specification; the parts that a specification     *)
(* does not exercise stay in their initial state.                          *)
(***************************************************************************)
EXTENDS Integers, Sequences, FiniteSets, TLC

VARIABLES
    \* ---- governed GitHub request (GitHubAPI / GitHubCleaner ._make_request)
    client,           \* which client issues the call: "migrate" | "topics" | "cleanup" | "dashboard"
    reqState,         \* "idle" | "sending" | "returned" | "raised"
    retry_count,      \* the retry_count argument of the current attempt
    attempts,         \* HTTP requests issued for the current logical call
    wait_computed,    \* wait_time of the latest retry as first computed (before the 60 s floor), in s
    lastSleep,        \* the latest time.sleep() of the current logical call, in ms (0: none)
    sleepCount,       \* time.sleep() calls of the current logical call
    lastResp,         \* the response the last attempt received
    result,           \* what the call gave back to its caller
    rate_limit_info,  \* GitHubAPI.rate_limit_info
    calls,            \* logical calls started so far
    \* ---- page-numbered list fetch (_make_request_list / get_branches)
    serverItems,      \* how many items the server holds
    page,             \* the page number of the next request
    all_results,      \* items accumulated so far, in order
    pageRequests,     \* the page numbers requested so far, in order
    listState,        \* "fetching" | "returned" | "raised"
    \* ---- branch / tag comparison (SyncChecker)
    gitlab_branches, github_branches, gitlab_tags, github_tags,
    compareOutcome,   \* outcome of GitHubAPI.compare_commits per branch name
    show_behind_details,
    branchResult,     \* result of _compare_branches, or NotCompared
    tagResult,        \* result of _compare_tags, or NotCompared
    compareCalls,     \* the compare_commits calls made: name, base, head
    summary,          \* result of _generate_summary, or NoSummary
    checkFailed,      \* check_repository_sync ran its except branch
    \* ---- transfer run (GitLabToGitHubMigrator.migrate_all / migrate_repository)
    repositories,     \* the job list
    dry_run,          \* config['options']['dry_run']
    preserve_branches, preserve_tags,
    idx,              \* index of the current job (1-based), 0 before the run
    pc,               \* position inside migrate_all / migrate_repository
    temp_dir,         \* self.temp_dir: NoDir or a directory id
    dirs,             \* the temporary directories that exist on disk
    nextDir,          \* the id mkdtemp hands out next
    trace,            \* the steps the current job has executed, in order
    jobDir,           \* the directory the current job created, or NoDir
    removeCalls,      \* _remove_temp_dir calls of the current job: <<dir, ok>>
    outcome,          \* how the current job ended: "none" | "dry_run" | "completed" | "failed" | "keyerror" | "interrupted"
    failedStep,       \* the step whose failure ended the current job, or "none"
    started,          \* the indices of the jobs that were started, in order
    success_count, fail_count,
    createResp,       \* the answer to the current job's create-repository request
    getRepoCalls,     \* get_repo calls of the current job's ensure step
    grantFailed,      \* whether a grant of the current job's grant step failed
    topicOutcome,     \* the current job's topic step: "none" | "no_namespace" | "updated" | "failed"
    \* ---- control server (MigrationHTTPRequestHandler)
    migrateProcs,     \* migrate.py processes in flight
    cleanupProcs,     \* cleanup_github.py processes in flight
    resultsFile,      \* migration_results.json: NoFile, UnreadableFile or its timestamp
    lastResponse,     \* the last response sent: path asked, status code, "status" field
                      \* and data.timestamp
    requests,         \* requests handled so far
    \* ---- permission grants of one job (_grant_repository_permissions)
    collaborators,    \* repo_config['collaborators']: whether each entry has a username
    teams,            \* repo_config['teams']: whether each entry has a team_slug
    org_name,         \* whether config['github']['organization'] is set
    grantPhase,       \* "collaborators" | "teams" | "returned" | "raised"
    grantPos,         \* position of the loop in the list of the phase
    grantLog,         \* the grant requests made, in order: kind, position, ok
    \* ---- cleanup tool (cleanup_github.py main)
    repo_names,       \* how many repository names the run was given
    remoteRepos,      \* the named repositories that exist on GitHub
    cleanDryRun,      \* the -d / --dry-run option
    cleanPc,          \* "list" | "confirm" | "delete" | "exited"
    existing_repos,   \* the names list_target_repos found, in order
    confirmation,     \* what was typed at the prompt, or NotAsked
    deleteIdx,        \* position of the delete loop
    deleteRequests,   \* the names a DELETE request was issued for, in order
    cleanExit,        \* exit status of the tool, NoneVal while it runs
    repo_names_manual, \* number of names given with -r, 0 if the option is absent
    scan_groups,      \* per configured group: its scan fails, or finds no or one project
    configRepos,      \* number of entries of the configuration's repositories list
    deleteAnswers,    \* how each DELETE request was answered, in order
    deletedCount,     \* success_count of the delete loop
    failedCount,      \* fail_count of the delete loop
    \* ---- session start (GitLabToGitHubMigrator.__init__)
    sessPc,           \* "user" | "query" | "display" | "constructed" | "failed"
    queryAnswer,      \* what the quota query met, or NoAnswer
    displayed,        \* _display_rate_limit_status: "none" | "shown" | "warned"
    \* ---- destination names of a scanned project
    scanned,          \* the project a group scan returned
    naming_rule,      \* the group's configured naming_rule, "absent" if not set
    github_name,      \* tool -> the name it derived, NoName before it scanned
    \* ---- dashboard generation (dashboard.py, main)
    force_refresh,    \* --refresh was given
    storedResults,    \* migration_results.json: "absent" | "unreadable" | "stored"
    dashRepos,        \* number of configured repositories
    dashPc,           \* "start" | "construct" | "check" | "html" | "done" | "failed"
    dataSource,       \* "none" | "stored" | "api"
    apiRequests,      \* the API requests made so far, in order
    dashIdx,          \* 1-based index of the repository being checked
    \* ---- check_all_repositories
    checkRepos,       \* number of configured repositories
    checkIdx,         \* 1-based index of the repository checked next
    checkResults,     \* results, in the order appended
    fully_synced,     \* the count printed at the end, NoneVal before
    has_issues        \* the other count printed at the end, NoneVal before

govVars  == <<client, reqState, retry_count, attempts, wait_computed, lastSleep, sleepCount,
              lastResp, result,
              rate_limit_info, calls>>
pageVars == <<serverItems, page, all_results, pageRequests, listState>>
cmpVars  == <<gitlab_branches, github_branches, gitlab_tags, github_tags,
              compareOutcome, show_behind_details, branchResult, tagResult,
              compareCalls, summary, checkFailed>>
jobVars  == <<repositories, dry_run, preserve_branches, preserve_tags, idx, pc,
              temp_dir, dirs, nextDir, trace, jobDir, removeCalls, outcome,
              failedStep, started, success_count, fail_count,
              createResp, getRepoCalls, grantFailed, topicOutcome>>
srvVars  == <<migrateProcs, cleanupProcs, resultsFile, lastResponse, requests>>
grantVars == <<collaborators, teams, org_name, grantPhase, grantPos, grantLog>>
cleanVars == <<repo_names, remoteRepos, cleanDryRun, cleanPc, existing_repos, confirmation,
               deleteIdx, deleteRequests, cleanExit, repo_names_manual, scan_groups,
               configRepos, deleteAnswers, deletedCount, failedCount>>
sessVars == <<sessPc, queryAnswer, displayed>>
nameVars == <<scanned, naming_rule, github_name>>
dashVars == <<force_refresh, storedResults, dashRepos, dashPc, dataSource, apiRequests,
              dashIdx>>
allVars  == <<checkRepos, checkIdx, checkResults, fully_synced, has_issues>>
vars     == <<govVars, pageVars, cmpVars, jobVars, srvVars, grantVars, cleanVars, sessVars,
             nameVars, dashVars, allVars>>

\* Each part leaves the other parts alone.
GovFrame ==
    UNCHANGED <<pageVars, cmpVars, jobVars, srvVars, grantVars, cleanVars, sessVars,
                nameVars, dashVars, allVars>>
PageFrame ==
    UNCHANGED <<govVars, cmpVars, jobVars, srvVars, grantVars, cleanVars, sessVars,
                nameVars, dashVars, allVars>>
CmpFrame ==
    UNCHANGED <<govVars, pageVars, jobVars, srvVars, grantVars, cleanVars, sessVars,
                nameVars, dashVars, allVars>>
JobFrame ==
    UNCHANGED <<govVars, pageVars, cmpVars, srvVars, grantVars, cleanVars, sessVars,
                nameVars, dashVars, allVars>>
SrvFrame ==
    UNCHANGED <<govVars, pageVars, cmpVars, jobVars, grantVars, cleanVars, sessVars,
                nameVars, dashVars, allVars>>
GrantFrame ==
    UNCHANGED <<govVars, pageVars, cmpVars, jobVars, srvVars, cleanVars, sessVars,
                nameVars, dashVars, allVars>>
CleanFrame ==
    UNCHANGED <<govVars, pageVars, cmpVars, jobVars, srvVars, grantVars, sessVars,
                nameVars, dashVars, allVars>>

(***************************************************************************)
(* Bounds of the model.                                                    *)
(***************************************************************************)
MaxCalls == 2        \* logical governed calls per behaviour
MaxItems == 237      \* items the list server may hold
MaxRefs == 2         \* length of a ref list handed to the comparison
MaxName == 2         \* ref names are 1..MaxName, ordered as the strings are
MaxJobs == 2         \* jobs in the transfer run
MaxProcs == 3        \* background processes the server model follows
MaxRequests == 4     \* requests the server model handles
MaxGrants == 2       \* entries in a job's collaborator list and in its team list
MaxTargets == 3      \* repository names handed to the cleanup tool
MaxDashRepos == 2    \* repositories the dashboard checks
MaxChecks == 3       \* repositories check_all_repositories goes through

(***************************************************************************)
(* Governed GitHub request.                                                *)
(***************************************************************************)
max_retries == 3
base_delay == 2
MinSecondaryWait == 60
DefaultDelayMs == 500

\* Python's None for an integer-valued field or header.
NoneVal == -1
\* A header whose text is not a decimal integer (int() raises ValueError).
BadVal == -2

\* Error bodies the server may send; Lower is str.lower() on them.
ErrBodies == {"Forbidden", "You have exceeded a secondary rate limit",
              "SECONDARY RATE LIMIT hit"}

Lower(body) ==
    CASE body = "Forbidden" -> "forbidden"
      [] body = "You have exceeded a secondary rate limit" ->
             "you have exceeded a secondary rate limit"
      [] body = "SECONDARY RATE LIMIT hit" -> "secondary rate limit hit"
      [] OTHER -> body

\* 'secondary rate limit' in <a lower-cased body>
ContainsSecondaryLower(lowered) ==
    lowered \in {"you have exceeded a secondary rate limit",
                 "secondary rate limit hit"}

\* 'secondary rate limit' in error_body.lower()
MentionsSecondary(body) == ContainsSecondaryLower(Lower(body))

RemainingHdrs == {NoneVal, BadVal, 5, 50, 300, 999}
LimitHdrs == {NoneVal, BadVal, 1000}
RetryAfterHdrs == {NoneVal, BadVal, 3, 120}

\* What urlopen can produce for one HTTP request.
OkResponses ==
    [kind : {"ok"}, code : {200}, body : {"json", "empty", "garbage"},
     retry_after : {NoneVal}, remaining : RemainingHdrs, limit : LimitHdrs]
ErrResponses ==
    [kind : {"http"}, code : {403, 404, 429, 500}, body : ErrBodies,
     retry_after : RetryAfterHdrs, remaining : {NoneVal, 5}, limit : {NoneVal}]
UrlErrors ==
    [kind : {"urlerror"}, code : {0}, body : {"unreachable"},
     retry_after : {NoneVal}, remaining : {NoneVal}, limit : {NoneVal}]
Responses == OkResponses \cup ErrResponses \cup UrlErrors

NoResponse == [kind |-> "none", code |-> 0, body |-> "", retry_after |-> NoneVal,
               remaining |-> NoneVal, limit |-> NoneVal]

\* A changed parse: the state is rebuilt from the headers of the response, so
\* a field whose header is absent or unreadable becomes unknown.
ParseRateLimitHeadersRebuilds(info, r) ==
    [info EXCEPT !.limit = IF r.limit = BadVal THEN NoneVal ELSE r.limit,
                 !.remaining = IF r.remaining = BadVal THEN NoneVal ELSE r.remaining]

\* _parse_rate_limit_headers: the fields are assigned in order inside one try;
\* a non-numeric header raises ValueError, which ends the parse and is ignored.
ParseRateLimitHeaders(info, r) ==
    LET afterLimit == IF r.limit = NoneVal THEN info
                      ELSE [info EXCEPT !.limit = r.limit]
    IN  IF r.limit = BadVal THEN info
        ELSE IF r.remaining = NoneVal THEN afterLimit
        ELSE IF r.remaining = BadVal THEN afterLimit
        ELSE [afterLimit EXCEPT !.remaining = r.remaining]

\* A changed policy: the branches are tested in the wrong order, so the two
\* longer delays are never chosen.
AdaptiveDelayWrongOrder(info) ==
    IF info.remaining = NoneVal \/ info.limit = NoneVal THEN DefaultDelayMs
    ELSE IF info.remaining < 500 THEN 1000
    ELSE IF info.remaining < 100 THEN 2000
    ELSE IF info.remaining < 10 THEN 5000
    ELSE DefaultDelayMs

\* _adaptive_delay: the sleep, in ms, chosen from the rate-limit state.
AdaptiveDelay(info) ==
    IF info.remaining = NoneVal \/ info.limit = NoneVal THEN DefaultDelayMs
    ELSE IF info.remaining < 10 THEN 5000
    ELSE IF info.remaining < 100 THEN 2000
    ELSE IF info.remaining < 500 THEN 1000
    ELSE DefaultDelayMs

\* The requests that parse the quota headers of a successful response: those
\* of the migration client, update_topics included.
ParsesQuotaHeaders(c) == c \in {"migrate", "topics"}

\* The delay a successful response is followed by, per client: the migration
\* client parses the quota headers and sleeps adaptively, the cleanup client
\* sleeps a fixed 0.5 s.
SuccessDelay(c, info) ==
    IF ParsesQuotaHeaders(c) THEN AdaptiveDelay(info) ELSE DefaultDelayMs

\* json.loads(response_data) if response_data else {}
DecodeBody(body) ==
    CASE body = "json" -> "body"
      [] body = "empty" -> "emptydict"
      [] OTHER -> "JSONDecodeError"

\* The three clients of the GitHub API: migrate.py (also used by
\* check_sync.py), cleanup_github.py and dashboard.py. The migration client
\* sends its requests through _make_request ("migrate"), except update_topics,
\* which opens its own connection ("topics").
Clients == {"migrate", "topics", "cleanup", "dashboard"}

\* if e.code == 404: return None  (cleanup_github.py and dashboard.py only)
ReturnsNoneOn404(c) == c \in {"cleanup", "dashboard"}

\* The requests that go through a _make_request with a retry branch. The
\* dashboard client has none and sleeps nowhere; update_topics has none and
\* sleeps after a success only.
IsGoverned(c) == c \in {"migrate", "cleanup"}

\* The requests that are followed by a sleep when they succeed.
SleepsAfterSuccess(c) == IsGoverned(c) \/ c = "topics"

\* error_code in [429, 403] and retry_count < max_retries
\* A changed retry bound: one retry too many.
ShouldRetryOffByOne(code, body, rc) ==
    code \in {429, 403} /\ rc <= max_retries

ShouldRetry(code, body, rc) ==
    code \in {429, 403} /\ rc < max_retries

\* A changed backoff: the retry count multiplies instead of being the exponent.
ComputedWaitLinear(r, rc) ==
    IF r.retry_after # NoneVal THEN r.retry_after
    ELSE base_delay * (2 * rc)

\* wait_time = int(retry_after) if retry_after else base_delay * (2 ** retry_count)
ComputedWait(r, rc) ==
    IF r.retry_after # NoneVal THEN r.retry_after
    ELSE base_delay * (2 ^ rc)

\* The wait, in seconds, before the retry that follows response r.
WaitTime(r, rc) ==
    LET computed == ComputedWait(r, rc)
    IN  IF MentionsSecondary(r.body) \/ r.code = 403
        THEN IF computed > MinSecondaryWait THEN computed ELSE MinSecondaryWait
        ELSE computed

\* A response the specification calls throttling.
IsThrottling(r) ==
    r.kind = "http" /\ (r.code = 429 \/ (r.code = 403 /\ MentionsSecondary(r.body)))

GovIdle ==
    /\ client = "migrate"
    /\ reqState = "idle"
    /\ retry_count = 0
    /\ attempts = 0
    /\ wait_computed = 0
    /\ lastSleep = 0
    /\ sleepCount = 0
    /\ lastResp = NoResponse
    /\ result = "none"
    /\ rate_limit_info = [limit |-> NoneVal, remaining |-> NoneVal, reset |-> NoneVal]
    /\ calls = 0

\* A caller starts one logical call: _make_request(endpoint) with retry_count = 0.
StartRequest(c) ==
    /\ GovFrame
    /\ reqState \in {"idle", "returned", "raised"}
    /\ calls < MaxCalls
    /\ client' = c
    /\ reqState' = "sending"
    /\ retry_count' = 0
    /\ attempts' = 0
    /\ wait_computed' = 0
    /\ lastSleep' = 0
    /\ sleepCount' = 0
    /\ lastResp' = NoResponse
    /\ result' = "none"
    /\ calls' = calls + 1
    /\ UNCHANGED rate_limit_info

\* One attempt: urlopen answers with r and _make_request handles it.
Attempt(r) ==
    /\ GovFrame
    /\ reqState = "sending"
    /\ attempts' = attempts + 1
    /\ lastResp' = r
    /\ UNCHANGED <<client, calls>>
    /\ CASE r.kind = "ok" ->
              LET info == IF ParsesQuotaHeaders(client)
                          THEN ParseRateLimitHeaders(rate_limit_info, r)
                          ELSE rate_limit_info
                  decoded == DecodeBody(r.body)
              IN  /\ rate_limit_info' = info
                  /\ IF SleepsAfterSuccess(client)
                     THEN /\ lastSleep' = SuccessDelay(client, info)
                          /\ sleepCount' = sleepCount + 1
                     ELSE UNCHANGED <<lastSleep, sleepCount>>
                  /\ result' = decoded
                  /\ reqState' = IF decoded = "JSONDecodeError" THEN "raised"
                                 ELSE "returned"
                  /\ UNCHANGED <<retry_count, wait_computed>>
         [] r.kind = "urlerror" ->
              /\ reqState' = "raised"
              /\ result' = "URLError"
              /\ UNCHANGED <<retry_count, wait_computed, lastSleep, sleepCount, rate_limit_info>>
         [] OTHER ->
              IF ReturnsNoneOn404(client) /\ r.code = 404
              THEN /\ reqState' = "returned"
                   /\ result' = "None"
                   /\ UNCHANGED <<retry_count, wait_computed, lastSleep, sleepCount, rate_limit_info>>
              ELSE IF IsGoverned(client) /\ ShouldRetry(r.code, r.body, retry_count)
              THEN IF r.retry_after = BadVal
                   THEN \* int(retry_after) raises ValueError
                        /\ reqState' = "raised"
                        /\ result' = "ValueError"
                        /\ UNCHANGED <<retry_count, wait_computed, lastSleep, sleepCount, rate_limit_info>>
                   ELSE /\ wait_computed' = ComputedWait(r, retry_count)
                        /\ lastSleep' = 1000 * WaitTime(r, retry_count)
                        /\ sleepCount' = sleepCount + 1
                        /\ retry_count' = retry_count + 1
                        /\ UNCHANGED <<reqState, result, rate_limit_info>>
              ELSE /\ reqState' = "raised"
                   /\ result' = "ApiError"
                   /\ UNCHANGED <<retry_count, wait_computed, lastSleep, sleepCount, rate_limit_info>>

GovNext ==
    \/ \E c \in Clients : StartRequest(c)
    \/ \E r \in Responses : Attempt(r)

(***************************************************************************)
(* Page-numbered list fetch.                                               *)
(***************************************************************************)
per_page == 100

Min(a, b) == IF a < b THEN a ELSE b

\* The items the server returns for page p when it holds n items (numbered
\* 1..n in server order) and serves per_page items per page.
ServerPage(n, p) ==
    LET first == (p - 1) * per_page
        count == IF n > first THEN Min(per_page, n - first) ELSE 0
    IN  [i \in 1..count |-> first + i]

\* A changed loop: no short-page test, only the empty page ends it.
IsLastPageNever(results) == FALSE

\* len(results) < per_page
IsLastPage(results) == Len(results) < per_page

PageIdle ==
    /\ serverItems = 0
    /\ page = 1
    /\ all_results = <<>>
    /\ pageRequests = <<>>
    /\ listState = "returned"

PageInit ==
    /\ serverItems \in 0..MaxItems
    /\ page = 1
    /\ all_results = <<>>
    /\ pageRequests = <<>>
    /\ listState = "fetching"

\* One pass of the while loop: request the page, then stop or go on.
FetchPage(ok) ==
    /\ PageFrame
    /\ listState = "fetching"
    /\ pageRequests' = Append(pageRequests, page)
    /\ UNCHANGED serverItems
    /\ IF ~ok
       THEN /\ listState' = "raised"
            /\ UNCHANGED <<page, all_results>>
       ELSE LET results == ServerPage(serverItems, page)
            IN  IF results = <<>>
                THEN /\ listState' = "returned"
                     /\ UNCHANGED <<page, all_results>>
                ELSE /\ all_results' = all_results \o results
                     /\ IF IsLastPage(results)
                        THEN /\ listState' = "returned"
                             /\ UNCHANGED page
                        ELSE /\ page' = page + 1
                             /\ UNCHANGED listState

PageNext == \E ok \in BOOLEAN : FetchPage(ok)

(***************************************************************************)
(* Branch / tag comparison.                                                *)
(***************************************************************************)
Names == 1..MaxName

\* A commit id is modelled by its first 8 characters and the rest of it, so
\* that two ids may differ and still share their short form.
Shas == {<<1, 0>>, <<1, 1>>, <<2, 0>>}
\* The ids the source tags are drawn from.
HeadShas == {<<1, 0>>, <<1, 1>>}
\* The id of the destination side: a status depends only on whether the two
\* ids of a name are equal, so one id on this side gives every case.
DstShas == {<<1, 1>>}
EmptySha == <<0, 0>>
Dash == 0

\* sha[:8]
Short8(sha) == sha[1]

\* gitlab_sha[:8] if gitlab_sha else '-'
Short8OrDash(sha) == IF sha = EmptySha THEN Dash ELSE Short8(sha)

GitLabBranches == [name : Names, commit : [id : Shas]]
GitHubRefs == [name : Names, commit : [sha : DstShas]]
\* A GitLab tag carries a nested commit object, or a flat target field, or
\* neither of the two, or a 'commit' key whose value is null.
GitLabTags ==
    [name : Names, shape : {"commit", "target"}, sha : HeadShas]
        \cup [name : Names, shape : {"none", "null_commit"}, sha : {EmptySha}]

\* The lists an API can return: at most MaxRefs entries, names unique.
RefLists(Entries) ==
    UNION {{s \in [1..n -> Entries] :
               \A i, j \in 1..n : i # j => s[i].name # s[j].name} : n \in 0..MaxRefs}

\* {b['name']: b for b in refs}: the last entry of a name wins.
RefDict(refs) ==
    [nm \in {refs[i].name : i \in 1..Len(refs)} |->
        LET last == CHOOSE i \in 1..Len(refs) :
                        /\ refs[i].name = nm
                        /\ \A j \in 1..Len(refs) : refs[j].name = nm => j <= i
        IN  refs[last]]

\* set(gitlab_dict.keys()) | set(github_dict.keys())
AllNames(gitlab_dict, github_dict) == DOMAIN gitlab_dict \cup DOMAIN github_dict

\* sorted(names): ascending.
RECURSIVE SortedSeq(_)
SortedSeq(S) ==
    IF S = {} THEN <<>>
    ELSE LET m == CHOOSE x \in S : \A y \in S : x <= y
         IN  <<m>> \o SortedSeq(S \ {m})

\* What compare_commits can give for one branch: a failure, or a compare body.
CompareBodies ==
    {[kind |-> "ok", behind_by |-> 0, ahead_by |-> 1, commits |-> <<<<2, 0>>>>],
     [kind |-> "ok", behind_by |-> 2, ahead_by |-> 0,
      commits |-> <<<<1, 0>>, <<1, 1>>>>],
     [kind |-> "ok", behind_by |-> 12, ahead_by |-> 1,
      commits |-> [i \in 1..12 |-> <<(i % 2) + 1, i>>]]}
CompareFailure == [kind |-> "error", behind_by |-> 0, ahead_by |-> 0, commits |-> <<>>]
CompareOutcomes == CompareBodies \cup {CompareFailure}

NoDetails == [kind |-> "none", behind_by |-> 0, ahead_by |-> 0, commits |-> <<>>]
MaxBehindCommits == 10

\* commits[:10], each reduced to its summary.
BehindCommits(commits) ==
    [i \in 1..Min(MaxBehindCommits, Len(commits)) |-> Short8(commits[i])]

\* A changed handler: a failed compare call leaves no trace on the branch.
BehindDetailsDropsError(show, oc, nm) ==
    IF ~show THEN NoDetails
    ELSE IF oc[nm].kind = "error" THEN NoDetails
    ELSE IF oc[nm].behind_by > 0
         THEN [kind |-> "detail", behind_by |-> oc[nm].behind_by,
               ahead_by |-> oc[nm].ahead_by,
               commits |-> BehindCommits(oc[nm].commits)]
    ELSE NoDetails

\* The behind_details of a branch whose commits differ.
BehindDetails(show, oc, nm) ==
    IF ~show THEN NoDetails
    ELSE IF oc[nm].kind = "error" THEN [NoDetails EXCEPT !.kind = "error"]
    ELSE IF oc[nm].behind_by > 0
         THEN [kind |-> "detail", behind_by |-> oc[nm].behind_by,
               ahead_by |-> oc[nm].ahead_by,
               commits |-> BehindCommits(oc[nm].commits)]
    ELSE NoDetails

\* A changed comparison: the short forms are compared instead of the ids.
BothStatusShort(gitlab_sha, github_sha) ==
    IF Short8(gitlab_sha) = Short8(github_sha) THEN "Synced" ELSE "Different"

\* The status of a ref present on both sides.
BothStatus(gitlab_sha, github_sha) ==
    IF gitlab_sha = github_sha THEN "Synced" ELSE "Different"

\* One entry of the branch result.
BranchInfo(nm, gitlab_dict, github_dict, show, oc) ==
    IF nm \in DOMAIN gitlab_dict /\ nm \in DOMAIN github_dict
    THEN LET gitlab_sha == gitlab_dict[nm].commit.id
             github_sha == github_dict[nm].commit.sha
         IN  [name |-> nm,
              status |-> BothStatus(gitlab_sha, github_sha),
              gitlab_commit |-> Short8(gitlab_sha),
              github_commit |-> Short8(github_sha),
              behind_details |->
                  IF gitlab_sha = github_sha THEN NoDetails
                  ELSE BehindDetails(show, oc, nm)]
    ELSE IF nm \in DOMAIN gitlab_dict
    THEN [name |-> nm, status |-> "Missing in GitHub",
          gitlab_commit |-> Short8(gitlab_dict[nm].commit.id),
          github_commit |-> Dash, behind_details |-> NoDetails]
    ELSE [name |-> nm, status |-> "Extra in GitHub",
          gitlab_commit |-> Dash,
          github_commit |-> Short8(github_dict[nm].commit.sha),
          behind_details |-> NoDetails]

\* A changed walk: the two key lists one after the other, not their union.
NamesConcatenated(gitlab_dict, github_dict) ==
    SortedSeq(DOMAIN gitlab_dict) \o SortedSeq(DOMAIN github_dict)

\* A changed walk: sorted the other way round.
NamesDescending(gitlab_dict, github_dict) ==
    LET up == SortedSeq(AllNames(gitlab_dict, github_dict))
    IN  [i \in 1..Len(up) |-> up[Len(up) + 1 - i]]

\* The names the comparison walks through, in order.
NamesToCompare(gitlab_dict, github_dict) ==
    SortedSeq(AllNames(gitlab_dict, github_dict))

CompareBranches(gl, gh, show, oc) ==
    LET gitlab_dict == RefDict(gl)
        github_dict == RefDict(gh)
        order == NamesToCompare(gitlab_dict, github_dict)
    IN  [gitlab_count |-> Len(gl),
         github_count |-> Len(gh),
         details |-> [i \in 1..Len(order) |->
                         BranchInfo(order[i], gitlab_dict, github_dict, show, oc)]]

\* gitlab_tag['commit']['id'] with the 'commit' key present and its value
\* None: subscripting None raises TypeError.
TagShaRaises(tag) == tag.shape = "null_commit"

\* gitlab_tag['commit']['id'] if 'commit' in gitlab_tag else gitlab_tag.get('target', '')
\* (for a tag on which the expression does not raise).
GitLabTagSha(tag) ==
    IF tag.shape = "commit" THEN tag.sha
    ELSE IF tag.shape = "target" THEN tag.sha
    ELSE EmptySha

TagInfo(nm, gitlab_dict, github_dict) ==
    IF nm \in DOMAIN gitlab_dict /\ nm \in DOMAIN github_dict
    THEN LET gitlab_sha == GitLabTagSha(gitlab_dict[nm])
             github_sha == github_dict[nm].commit.sha
         IN  [name |-> nm,
              status |-> BothStatus(gitlab_sha, github_sha),
              gitlab_commit |-> Short8OrDash(gitlab_sha),
              github_commit |-> Short8(github_sha),
              behind_details |-> NoDetails]
    ELSE IF nm \in DOMAIN gitlab_dict
    THEN [name |-> nm, status |-> "Missing in GitHub",
          gitlab_commit |-> Short8OrDash(GitLabTagSha(gitlab_dict[nm])),
          github_commit |-> Dash, behind_details |-> NoDetails]
    ELSE [name |-> nm, status |-> "Extra in GitHub",
          gitlab_commit |-> Dash,
          github_commit |-> Short8(github_dict[nm].commit.sha),
          behind_details |-> NoDetails]

CompareTags(gl, gh) ==
    LET gitlab_dict == RefDict(gl)
        github_dict == RefDict(gh)
        order == NamesToCompare(gitlab_dict, github_dict)
    IN  [gitlab_count |-> Len(gl),
         github_count |-> Len(gh),
         details |-> [i \in 1..Len(order) |->
                         TagInfo(order[i], gitlab_dict, github_dict)]]

\* Whether _compare_tags raises: every source tag is looked at, in both the
\* branch for a tag on both sides and the branch for a source-only tag.
CompareTagsRaises(gl) ==
    \E nm \in DOMAIN RefDict(gl) : TagShaRaises(RefDict(gl)[nm])

NotCompared == [gitlab_count |-> -1, github_count |-> -1, details |-> <<>>]

\* The conditions _generate_summary counts by, on the status texts
\* '\u2713 Synced', '\u26a0 Different', '\u2717 Missing in GitHub', '\u2717 Extra in GitHub'.
IsSyncedStatus(st) == st = "Synced"
HasWarningSign(st) == st = "Different"
HasMissing(st) == st = "Missing in GitHub"
HasExtra(st) == st = "Extra in GitHub"

\* sum(1 for b in details if <condition on b['status']>), per condition.
StatusCounts(details) ==
    [synced    |-> Cardinality({i \in 1..Len(details) : IsSyncedStatus(details[i].status)}),
     different |-> Cardinality({i \in 1..Len(details) : HasWarningSign(details[i].status)}),
     missing   |-> Cardinality({i \in 1..Len(details) : HasMissing(details[i].status)}),
     extra     |-> Cardinality({i \in 1..Len(details) : HasExtra(details[i].status)})]

\* A changed flag: the missing counts are left out of the conjunction.
IsFullySyncedIgnoresMissing(b, t) ==
    /\ b.different = 0 /\ b.extra = 0
    /\ t.different = 0 /\ t.extra = 0

\* is_fully_synced, from the branch counts b and the tag counts t.
IsFullySynced(b, t) ==
    /\ b.different = 0 /\ b.missing = 0 /\ b.extra = 0
    /\ t.different = 0 /\ t.missing = 0 /\ t.extra = 0

\* _generate_summary(sync_status)
GenerateSummary(branches, tags) ==
    LET b == StatusCounts(branches.details)
        t == StatusCounts(tags.details)
    IN  [is_fully_synced |-> IsFullySynced(b, t), branches |-> b, tags |-> t]

\* sync_status['summary'] before it is generated.
NoSummary ==
    [is_fully_synced |-> FALSE,
     branches |-> [synced |-> -1, different |-> -1, missing |-> -1, extra |-> -1],
     tags |-> [synced |-> -1, different |-> -1, missing |-> -1, extra |-> -1]]

CmpIdle ==
    /\ gitlab_branches = <<>>
    /\ github_branches = <<>>
    /\ gitlab_tags = <<>>
    /\ github_tags = <<>>
    /\ compareOutcome = <<>>
    /\ show_behind_details = FALSE
    /\ branchResult = NotCompared
    /\ tagResult = NotCompared
    /\ compareCalls = {}
    /\ summary = NoSummary
    /\ checkFailed = FALSE

\* The branches for which _compare_branches calls compare_commits.
ComparedNames(gl, gh, show) ==
    IF ~show THEN {}
    ELSE {nm \in DOMAIN RefDict(gl) \cap DOMAIN RefDict(gh) :
             RefDict(gl)[nm].commit.id # RefDict(gh)[nm].commit.sha}

\* The inputs of one check: the branch lists and the tag lists the two APIs
\* returned and the detail option.
CmpInit ==
    /\ \/ /\ gitlab_branches \in RefLists(GitLabBranches)
          /\ github_branches \in RefLists(GitHubRefs)
          /\ gitlab_tags = <<>>
          /\ github_tags = <<>>
          /\ show_behind_details \in BOOLEAN
       \/ /\ gitlab_branches = <<>>
          /\ github_branches = <<>>
          /\ gitlab_tags \in RefLists(GitLabTags)
          /\ github_tags \in RefLists(GitHubRefs)
          /\ show_behind_details = FALSE
    /\ compareOutcome = <<>>
    /\ branchResult = NotCompared
    /\ tagResult = NotCompared
    /\ compareCalls = {}
    /\ summary = NoSummary
    /\ checkFailed = FALSE

\* self.github.compare_commits(owner, repo, github_sha, gitlab_sha): the
\* third argument is the base, the fourth the head.
CompareCalls(gl, gh, show) ==
    {[name |-> nm, base |-> RefDict(gh)[nm].commit.sha, head |-> RefDict(gl)[nm].commit.id] :
        nm \in ComparedNames(gl, gh, show)}

\* check_repository_sync, step 1: compare the branches; oc is what the
\* compare endpoint answers for each branch it is asked about.
DoCompareBranches(oc) ==
    /\ CmpFrame
    /\ branchResult = NotCompared
    /\ compareOutcome' = oc
    /\ compareCalls' = CompareCalls(gitlab_branches, github_branches, show_behind_details)
    /\ branchResult' = CompareBranches(gitlab_branches, github_branches,
                                       show_behind_details, oc)
    /\ UNCHANGED <<gitlab_branches, github_branches, gitlab_tags, github_tags,
                   show_behind_details, tagResult, summary, checkFailed>>

\* check_repository_sync, step 2: compare the tags. An exception of
\* _compare_tags is caught by check_repository_sync, which logs it and returns
\* the status with 'tags' and 'summary' left empty.
DoCompareTags ==
    /\ CmpFrame
    /\ branchResult # NotCompared
    /\ tagResult = NotCompared
    /\ ~checkFailed
    /\ IF CompareTagsRaises(gitlab_tags)
       THEN checkFailed' = TRUE /\ UNCHANGED tagResult
       ELSE tagResult' = CompareTags(gitlab_tags, github_tags) /\ UNCHANGED checkFailed
    /\ UNCHANGED <<gitlab_branches, github_branches, gitlab_tags, github_tags,
                   compareOutcome, show_behind_details, branchResult,
                   compareCalls, summary>>

\* check_repository_sync, step 3: the summary of the two results.
DoGenerateSummary ==
    /\ CmpFrame
    /\ tagResult # NotCompared
    /\ summary = NoSummary
    /\ summary' = GenerateSummary(branchResult, tagResult)
    /\ UNCHANGED <<gitlab_branches, github_branches, gitlab_tags, github_tags,
                   compareOutcome, show_behind_details, branchResult, tagResult,
                   compareCalls, checkFailed>>

CmpNext ==
    \/ \E oc \in [ComparedNames(gitlab_branches, github_branches,
                                  show_behind_details) -> CompareOutcomes] :
           DoCompareBranches(oc)
    \/ DoCompareTags
    \/ DoGenerateSummary

(***************************************************************************)
(* Transfer run: migrate_all over the job list, migrate_repository per job.*)
(***************************************************************************)
NoDir == 0
SettleSeconds == 3

\* A job of the list: whether its entry has the 'github_repo_name' key and
\* whether it names a source project (gitlab_project_id or gitlab_project_path).
Jobs == [hasName : BOOLEAN, hasSource : BOOLEAN]
JobLists == UNION {[1..n -> Jobs] : n \in 0..MaxJobs}

\* What the create-repository request can answer: the status code and what
\* the error body says. A 422 is sent for a name that already exists and for
\* any other validation failure; a body may quote the digits 422.
CreateOutcomes ==
    {[code |-> 201, body |-> "repo"],
     [code |-> 422, body |-> "name already exists on this account"],
     [code |-> 422, body |-> "name is too long"],
     [code |-> 409, body |-> "name already exists on this account"],
     [code |-> 500, body |-> "server error"],
     [code |-> 500, body |-> "request id 422"]}
NoCreate == [code |-> 0, body |-> ""]

\* '422' in <the body of an error response>
BodyHas422(body) == body = "request id 422"

\* '422' in str(e), with str(e) = "GitHub API ... (<code>): <body>"
MessageHas422(created) == created.code = 422 \/ BodyHas422(created.body)

\* except Exception as e: if '422' in str(e): fall back to get_repo
FallsBackToGet(created) == created.code # 201 /\ MessageHas422(created)

JobIdle ==
    /\ repositories = <<>>
    /\ dry_run = FALSE
    /\ preserve_branches = TRUE
    /\ preserve_tags = TRUE
    /\ idx = 0
    /\ pc = "run_done"
    /\ temp_dir = NoDir
    /\ dirs = {}
    /\ nextDir = 1
    /\ trace = <<>>
    /\ jobDir = NoDir
    /\ removeCalls = <<>>
    /\ outcome = "none"
    /\ failedStep = "none"
    /\ started = <<>>
    /\ success_count = 0
    /\ fail_count = 0
    /\ createResp = NoCreate
    /\ getRepoCalls = 0
    /\ grantFailed = FALSE
    /\ topicOutcome = "none"

JobInit ==
    /\ repositories \in JobLists
    /\ dry_run \in BOOLEAN
    /\ preserve_branches \in BOOLEAN
    /\ preserve_tags \in BOOLEAN
    /\ idx = 0
    /\ pc = "start"
    /\ temp_dir = NoDir
    /\ dirs = {}
    /\ nextDir = 1
    /\ trace = <<>>
    /\ jobDir = NoDir
    /\ removeCalls = <<>>
    /\ outcome = "none"
    /\ failedStep = "none"
    /\ started = <<>>
    /\ success_count = 0
    /\ fail_count = 0
    /\ createResp = NoCreate
    /\ getRepoCalls = 0
    /\ grantFailed = FALSE
    /\ topicOutcome = "none"

configVars == <<repositories, dry_run, preserve_branches, preserve_tags>>
tallyVars == <<started, success_count, fail_count>>
diskVars == <<temp_dir, dirs, nextDir, jobDir, removeCalls>>
destVars == <<createResp, getRepoCalls>>
bestEffortVars == <<grantFailed, topicOutcome>>

\* A changed failure path: the cleanup sits at the end of the try block, so a
\* failed step returns without it.
StepDoneSkipsFinally(step, ok, nextPc) ==
    /\ trace' = Append(trace, step)
    /\ IF ok
       THEN /\ pc' = nextPc
            /\ UNCHANGED <<outcome, failedStep>>
       ELSE /\ pc' = "returned"
            /\ outcome' = "failed"
            /\ failedStep' = step

\* A changed failure path: the failure is logged and the job goes on.
StepDoneGoesOn(step, ok, nextPc) ==
    /\ trace' = Append(trace, step)
    /\ pc' = nextPc
    /\ IF ok
       THEN UNCHANGED <<outcome, failedStep>>
       ELSE outcome' = "failed" /\ failedStep' = step

\* A step of the current job ran: note it, then go on or fail the job.
\* A failure is caught by `except Exception`, which makes the job return False.
StepDone(step, ok, nextPc) ==
    /\ trace' = Append(trace, step)
    /\ IF ok
       THEN /\ pc' = nextPc
            /\ UNCHANGED <<outcome, failedStep>>
       ELSE /\ pc' = "finally"
            /\ outcome' = "failed"
            /\ failedStep' = step

\* migrate_all up to the loop: nothing to do for an empty list.
MigrateAllStart ==
    /\ JobFrame
    /\ pc = "start"
    /\ IF repositories = <<>>
       THEN pc' = "run_done" /\ UNCHANGED idx
       ELSE pc' = "begin" /\ idx' = 1
    /\ UNCHANGED <<configVars, destVars, bestEffortVars, diskVars, tallyVars, trace, outcome,
                   failedStep>>

\* migrate_repository is entered: the entry's fields are read before the try
\* block, so a missing 'github_repo_name' raises KeyError out of the run.
BeginJob ==
    /\ JobFrame
    /\ pc = "begin"
    /\ started' = Append(started, idx)
    /\ trace' = <<>>
    /\ jobDir' = NoDir
    /\ removeCalls' = <<>>
    /\ failedStep' = "none"
    /\ IF repositories[idx].hasName
       THEN pc' = "resolve" /\ outcome' = "none"
       ELSE pc' = "aborted" /\ outcome' = "keyerror"
    /\ createResp' = NoCreate
    /\ getRepoCalls' = 0
    /\ grantFailed' = FALSE
    /\ topicOutcome' = "none"
    /\ UNCHANGED <<configVars, idx, temp_dir, dirs, nextDir, success_count, fail_count>>

\* A changed check: the dry-run option is not looked at.
DryRunIgnored(flag) == FALSE

\* if self.config['options'].get('dry_run', False): ... return True
DryRunShortCircuit(flag) == flag

\* Step 1, and the dry-run check that follows a successful lookup.
ResolveSource(ok) ==
    /\ JobFrame
    /\ pc = "resolve"
    /\ IF ~repositories[idx].hasSource
       THEN \* ValueError before any request
            /\ pc' = "finally"
            /\ outcome' = "failed"
            /\ failedStep' = "config"
            /\ UNCHANGED trace
       ELSE IF ~ok
       THEN StepDone("resolve", FALSE, "finally")
       ELSE /\ trace' = Append(trace, "resolve")
            /\ UNCHANGED failedStep
            /\ IF DryRunShortCircuit(dry_run)
               THEN pc' = "finally" /\ outcome' = "dry_run"
               ELSE pc' = "ensure" /\ UNCHANGED outcome
    /\ UNCHANGED <<configVars, destVars, bestEffortVars, idx, diskVars, tallyVars>>

\* Step 3: _create_github_repo, with the fallback to the existing repository.
EnsureDestination(created, getOk) ==
    /\ JobFrame
    /\ pc = "ensure"
    /\ createResp' = created
    /\ getRepoCalls' = IF FallsBackToGet(created) THEN 1 ELSE 0
    /\ StepDone("ensure",
                created.code = 201 \/ (FallsBackToGet(created) /\ getOk),
                "grant")
    /\ UNCHANGED <<configVars, bestEffortVars, idx, diskVars, tallyVars>>

\* A changed grant step: the first failed grant leaves the step as an exception.
GrantStepRaisesOnFailure(allOk) == allOk

\* Whether _grant_repository_permissions returns normally: each grant sits in
\* its own try block whose `except Exception` only logs.
GrantStepReturns(allOk) == TRUE

\* Step 4: _grant_repository_permissions; allOk tells whether every grant
\* request of the step succeeded.
GrantAccess(allOk) ==
    /\ JobFrame
    /\ pc = "grant"
    /\ grantFailed' = ~allOk
    /\ StepDone("grant", GrantStepReturns(allOk), "topic")
    /\ UNCHANGED <<configVars, destVars, topicOutcome, idx, diskVars, tallyVars>>

\* What the topic step did: no request without a namespace id, else the
\* update_topics call and its result.
TopicOutcome(hasNamespaceId, ok) ==
    IF ~hasNamespaceId THEN "no_namespace"
    ELSE IF ok THEN "updated" ELSE "failed"

\* A changed topic step: a failed update leaves the step as an exception.
TopicStepRaisesOnFailure(done) == done # "failed"

\* Whether _add_gitlab_namespace_topic returns normally: the whole body sits
\* in a try block whose `except Exception` only logs, and a missing
\* namespace id is a plain return.
TopicStepReturns(done) == TRUE

\* Step 5: _add_gitlab_namespace_topic.
TagProvenance(hasNamespaceId, ok) ==
    /\ JobFrame
    /\ pc = "topic"
    /\ topicOutcome' = TopicOutcome(hasNamespaceId, ok)
    /\ StepDone("topic", TopicStepReturns(TopicOutcome(hasNamespaceId, ok)), "workspace")
    /\ UNCHANGED <<configVars, destVars, grantFailed, idx, diskVars, tallyVars>>

\* Step 6: self.temp_dir = tempfile.mkdtemp(...)
AcquireWorkspace(ok) ==
    /\ JobFrame
    /\ pc = "workspace"
    /\ StepDone("workspace", ok, "clone")
    /\ IF ok
       THEN /\ temp_dir' = nextDir
            /\ jobDir' = nextDir
            /\ dirs' = dirs \cup {nextDir}
            /\ nextDir' = nextDir + 1
       ELSE UNCHANGED <<temp_dir, jobDir, dirs, nextDir>>
    /\ UNCHANGED <<configVars, destVars, bestEffortVars, idx, removeCalls, tallyVars>>

\* Step 7: git clone --mirror
MirrorClone(ok) ==
    /\ JobFrame
    /\ pc = "clone"
    /\ StepDone("clone", ok, "seturl")
    /\ UNCHANGED <<configVars, destVars, bestEffortVars, idx, diskVars, tallyVars>>

\* Step 8a: git remote set-url origin <github url>
SetRemoteUrl(ok) ==
    /\ JobFrame
    /\ pc = "seturl"
    /\ StepDone("seturl", ok, "push")
    /\ UNCHANGED <<configVars, destVars, bestEffortVars, idx, diskVars, tallyVars>>

\* A changed selective push: the tags are pushed whatever the option says.
AfterPushAllTagsAlways(tags) == "push_tags"

\* if self.config['options'].get('preserve_tags', True): git push --tags
AfterPushAll(tags) == IF tags THEN "push_tags" ELSE "settle"

\* Step 8b: git push --mirror, or git push --all
PushRefs(ok) ==
    /\ JobFrame
    /\ pc = "push"
    /\ IF preserve_branches
       THEN StepDone("push_mirror", ok, "settle")
       ELSE StepDone("push_all", ok, AfterPushAll(preserve_tags))
    /\ UNCHANGED <<configVars, destVars, bestEffortVars, idx, diskVars, tallyVars>>

\* Step 8c: git push --tags
PushTags(ok) ==
    /\ JobFrame
    /\ pc = "push_tags"
    /\ StepDone("push_tags", ok, "settle")
    /\ UNCHANGED <<configVars, destVars, bestEffortVars, idx, diskVars, tallyVars>>

\* Step 9: time.sleep(3), then return True.
Settle ==
    /\ JobFrame
    /\ pc = "settle"
    /\ trace' = Append(trace, "settle")
    /\ outcome' = "completed"
    /\ pc' = "finally"
    /\ UNCHANGED <<configVars, destVars, bestEffortVars, idx, diskVars, tallyVars, failedStep>>

\* The steps that wait for a git subprocess (clone, set-url, push).
GitSteps == {"clone", "seturl", "push", "push_tags"}

\* A changed handler: a bare `except:` that catches everything.
CaughtByBareExcept(raised) == TRUE

\* `except Exception` catches what derives from Exception; KeyboardInterrupt
\* derives from BaseException only.
CaughtByExceptException(raised) == raised # "KeyboardInterrupt"

\* The process is interrupted (Ctrl-C, SIGINT) while a git step of the current
\* job runs: KeyboardInterrupt is raised inside the try block.
Interrupt ==
    /\ JobFrame
    /\ pc \in GitSteps
    /\ pc' = "finally"
    /\ IF CaughtByExceptException("KeyboardInterrupt")
       THEN outcome' = "failed" /\ failedStep' = "interrupt"
       ELSE outcome' = "interrupted" /\ UNCHANGED failedStep
    /\ UNCHANGED <<configVars, destVars, bestEffortVars, idx, diskVars, tallyVars, trace>>

\* if self.temp_dir and os.path.exists(self.temp_dir)
NeedsCleanup(dir, existing) == dir # NoDir /\ dir \in existing

\* Step 10, the finally block: _remove_temp_dir(self.temp_dir). rmtree may
\* fail; the failure is logged and the directory is left behind.
Finally(rmOk) ==
    /\ JobFrame
    /\ pc = "finally"
    /\ IF NeedsCleanup(temp_dir, dirs)
       THEN /\ removeCalls' = Append(removeCalls, <<temp_dir, rmOk>>)
            /\ dirs' = IF rmOk THEN dirs \ {temp_dir} ELSE dirs
       ELSE /\ rmOk
            /\ UNCHANGED <<removeCalls, dirs>>
    /\ pc' = IF outcome = "interrupted" THEN "interrupted" ELSE "returned"
    /\ UNCHANGED <<configVars, destVars, bestEffortVars, idx, temp_dir, nextDir, jobDir, trace,
                   outcome, failedStep, tallyVars>>

\* The exit status of the process once main has ended (NoneVal while it runs):
\* the run ended normally, or an exception reached main, which calls
\* sys.exit(1) for KeyboardInterrupt and for any other exception.
ExitStatus ==
    CASE pc = "run_done" -> 0
      [] pc \in {"aborted", "interrupted"} -> 1
      [] OTHER -> NoneVal

\* What migrate_repository returned.
ReturnValue(how) == how \in {"dry_run", "completed"}

\* The rest of the loop body of migrate_all: count, then the next job.
Tally ==
    /\ JobFrame
    /\ pc = "returned"
    /\ IF ReturnValue(outcome)
       THEN success_count' = success_count + 1 /\ UNCHANGED fail_count
       ELSE fail_count' = fail_count + 1 /\ UNCHANGED success_count
    /\ IF idx < Len(repositories)
       THEN idx' = idx + 1 /\ pc' = "begin"
       ELSE pc' = "run_done" /\ UNCHANGED idx
    /\ UNCHANGED <<configVars, destVars, bestEffortVars, diskVars, trace, outcome, failedStep,
                   started>>

JobNext ==
    \/ MigrateAllStart
    \/ BeginJob
    \/ \E ok \in BOOLEAN : ResolveSource(ok)
    \/ \E created \in CreateOutcomes, getOk \in BOOLEAN : EnsureDestination(created, getOk)
    \/ \E allOk \in BOOLEAN : GrantAccess(allOk)
    \/ \E hasNamespaceId, ok \in BOOLEAN : TagProvenance(hasNamespaceId, ok)
    \/ \E ok \in BOOLEAN : AcquireWorkspace(ok)
    \/ \E ok \in BOOLEAN : MirrorClone(ok)
    \/ \E ok \in BOOLEAN : SetRemoteUrl(ok)
    \/ \E ok \in BOOLEAN : PushRefs(ok)
    \/ \E ok \in BOOLEAN : PushTags(ok)
    \/ Settle
    \/ Interrupt
    \/ \E rmOk \in BOOLEAN : Finally(rmOk)
    \/ Tally

(***************************************************************************)
(* Control server: one request is handled at a time; migrate and cleanup   *)
(* are started on background threads and run on after the response.        *)
(***************************************************************************)
NoFile == 0
\* A results file that json.load cannot read.
UnreadableFile == -1
NoReply == [path |-> "", code |-> 0, status |-> "none", timestamp |-> NoFile]

SrvIdle ==
    /\ migrateProcs = 0
    /\ cleanupProcs = 0
    /\ resultsFile = NoFile
    /\ lastResponse = NoReply
    /\ requests = 0

SrvInit ==
    /\ migrateProcs = 0
    /\ cleanupProcs = 0
    /\ resultsFile \in {NoFile, UnreadableFile, 1}
    /\ lastResponse = NoReply
    /\ requests = 0

\* _send_json_response(status_code, data), answering the request to path.
Handled(path, code, status, timestamp) ==
    /\ requests < MaxRequests
    /\ requests' = requests + 1
    /\ lastResponse' = [path |-> path, code |-> code, status |-> status,
                        timestamp |-> timestamp]

\* POST /api/migrate: start migrate.py on a daemon thread, answer 202.
HandleMigrate ==
    /\ SrvFrame
    /\ migrateProcs < MaxProcs
    /\ migrateProcs' = migrateProcs + 1
    /\ Handled("migrate", 202, "started", NoFile)
    /\ UNCHANGED <<cleanupProcs, resultsFile>>

\* POST /api/cleanup: start cleanup_github.py on a daemon thread, answer 202;
\* a body that is not JSON answers 500 and starts nothing.
HandleCleanup(bodyOk) ==
    /\ SrvFrame
    /\ cleanupProcs < MaxProcs
    /\ IF bodyOk
       THEN cleanupProcs' = cleanupProcs + 1 /\ Handled("cleanup", 202, "started", NoFile)
       ELSE UNCHANGED cleanupProcs /\ Handled("cleanup", 500, "error", NoFile)
    /\ UNCHANGED <<migrateProcs, resultsFile>>

\* POST /api/refresh: run dashboard.py --refresh to its end, answer 200 or 500.
HandleRefresh(ok) ==
    /\ SrvFrame
    /\ IF ok THEN Handled("refresh", 200, "success", NoFile)
       ELSE Handled("refresh", 500, "error", NoFile)
    /\ UNCHANGED <<migrateProcs, cleanupProcs, resultsFile>>

\* A changed status reply: the file is reported as available whenever asked.
StatusReplyAlwaysAvailable(file) ==
    [code |-> 200, status |-> "available", timestamp |-> file]

\* The reply of _handle_status: the data of the file if it exists and loads,
\* 'no_data' if it does not exist, 500 if reading it raises.
StatusReply(file) ==
    CASE file = NoFile -> [code |-> 200, status |-> "no_data", timestamp |-> NoFile]
      [] file = UnreadableFile -> [code |-> 500, status |-> "error", timestamp |-> NoFile]
      [] OTHER -> [code |-> 200, status |-> "available", timestamp |-> file]

\* POST /api/status: report the results file.
HandleStatus ==
    /\ SrvFrame
    /\ LET reply == StatusReply(resultsFile)
       IN  Handled("status", reply.code, reply.status, reply.timestamp)
    /\ UNCHANGED <<migrateProcs, cleanupProcs, resultsFile>>

\* POST to any other path.
HandleUnknown ==
    /\ SrvFrame
    /\ Handled("unknown", 404, "not_found", NoFile)
    /\ UNCHANGED <<migrateProcs, cleanupProcs, resultsFile>>

\* A migrate.py process started by the server ends.
MigrationExits ==
    /\ SrvFrame
    /\ migrateProcs > 0
    /\ migrateProcs' = migrateProcs - 1
    /\ UNCHANGED <<cleanupProcs, resultsFile, lastResponse, requests>>

\* A cleanup_github.py process started by the server ends.
CleanupExits ==
    /\ SrvFrame
    /\ cleanupProcs > 0
    /\ cleanupProcs' = cleanupProcs - 1
    /\ UNCHANGED <<migrateProcs, resultsFile, lastResponse, requests>>

SrvNext ==
    \/ HandleMigrate
    \/ \E bodyOk \in BOOLEAN : HandleCleanup(bodyOk)
    \/ \E ok \in BOOLEAN : HandleRefresh(ok)
    \/ HandleStatus
    \/ HandleUnknown
    \/ MigrationExits
    \/ CleanupExits

(***************************************************************************)
(* Permission grants of one job: _grant_repository_permissions, one loop   *)
(* over the collaborators and one over the teams.                          *)
(***************************************************************************)

\* A list of grant entries; an entry tells whether it names its principal
\* (collab.get('username'), team.get('team_slug')).
GrantLists == UNION {[1..n -> BOOLEAN] : n \in 0..MaxGrants}

GrantIdle ==
    /\ collaborators = <<>>
    /\ teams = <<>>
    /\ org_name = FALSE
    /\ grantPhase = "returned"
    /\ grantPos = 1
    /\ grantLog = <<>>

GrantInit ==
    /\ collaborators \in GrantLists
    /\ teams \in GrantLists
    /\ org_name \in BOOLEAN
    /\ grantPhase = "collaborators"
    /\ grantPos = 1
    /\ grantLog = <<>>

\* One pass of a grant loop: an entry without a name is skipped (continue);
\* otherwise the request is made inside a try block.
GrantOne(kind, entries, ok) ==
    /\ grantPos <= Len(entries)
    /\ IF ~entries[grantPos]
       THEN /\ ok
            /\ grantPos' = grantPos + 1
            /\ UNCHANGED <<grantLog, grantPhase>>
       ELSE /\ grantLog' = Append(grantLog, [kind |-> kind, pos |-> grantPos, ok |-> ok])
            /\ IF GrantStepReturns(ok)
               THEN grantPos' = grantPos + 1 /\ UNCHANGED grantPhase
               ELSE grantPhase' = "raised" /\ UNCHANGED grantPos
    /\ UNCHANGED <<collaborators, teams, org_name>>

\* for collab in collaborators: ... self.github.add_collaborator(...)
GrantCollaborator(ok) ==
    /\ GrantFrame
    /\ grantPhase = "collaborators"
    /\ GrantOne("collaborator", collaborators, ok)

\* if teams and org_name
TeamsApply(list, org) == list # <<>> /\ org

\* The collaborator loop has ended: on to the teams, or return (with a warning
\* when teams are listed for a personal account).
CollaboratorsDone ==
    /\ GrantFrame
    /\ grantPhase = "collaborators"
    /\ grantPos > Len(collaborators)
    /\ grantPhase' = IF TeamsApply(teams, org_name) THEN "teams" ELSE "returned"
    /\ grantPos' = 1
    /\ UNCHANGED <<collaborators, teams, org_name, grantLog>>

\* for team in teams: ... self.github.add_team_to_repo(...)
GrantTeam(ok) ==
    /\ GrantFrame
    /\ grantPhase = "teams"
    /\ GrantOne("team", teams, ok)

\* The team loop has ended: the step returns.
TeamsDone ==
    /\ GrantFrame
    /\ grantPhase = "teams"
    /\ grantPos > Len(teams)
    /\ grantPhase' = "returned"
    /\ UNCHANGED <<collaborators, teams, org_name, grantPos, grantLog>>

GrantNext ==
    \/ \E ok \in BOOLEAN : GrantCollaborator(ok)
    \/ CollaboratorsDone
    \/ \E ok \in BOOLEAN : GrantTeam(ok)
    \/ TeamsDone

(***************************************************************************)
(* Cleanup tool: main of cleanup_github.py.                                *)
(***************************************************************************)
NotAsked == "<not asked>"

\* What may be typed at the confirmation prompt.
Confirmations == {"DELETE", "delete", "DELETE ", "yes", ""}

\* The names, in the order given, that a lookup found on GitHub.
FoundRepos(n, remote) == SelectSeq([i \in 1..n |-> i], LAMBDA i : i \in remote)

\* What a group scan may do, and the configurations the tool may be given.
GroupScans == {"fail", "none", "one"}
ScanGroupLists == UNION {[1..n -> GroupScans] : n \in 0..(MaxTargets - 1)}
ScanFails(groups) == \E i \in DOMAIN groups : groups[i] = "fail"
Collected(groups) == Cardinality({i \in DOMAIN groups : groups[i] = "one"})

\* A changed derivation: a failed scan keeps what the groups before it gave
\* and goes on to the repositories list.
RepoNamesKeepCollected(groups, repos) ==
    LET firstFail == IF ScanFails(groups)
                     THEN CHOOSE i \in DOMAIN groups :
                              groups[i] = "fail" /\ \A j \in 1..(i - 1) : groups[j] # "fail"
                     ELSE Len(groups) + 1
    IN  Collected(SubSeq(groups, 1, firstFail - 1)) + repos

\* get_repo_names_from_config: the number of names derived. The loop over the
\* groups is inside one try whose handler returns [].
RepoNamesFromConfig(groups, repos) ==
    IF ScanFails(groups) THEN 0 ELSE Collected(groups) + repos

\* How GitHub may answer a DELETE request.
DeleteAnswers == {"2xx", "404", "error"}

\* delete_repo returns True unless _make_request raised; _make_request
\* returns None for a 404 and raises for the other failures.
DeleteReturnsTrue(answer) == answer # "error"

\* A changed prompt: the answer is compared without regard to case.
ConfirmDeletionAnyCase(typed) == typed \in {"DELETE", "delete"}

\* return confirmation == "DELETE"
ConfirmDeletion(typed) == typed = "DELETE"

CleanIdle ==
    /\ repo_names = 0
    /\ remoteRepos = {}
    /\ cleanDryRun = FALSE
    /\ cleanPc = "exited"
    /\ existing_repos = <<>>
    /\ confirmation = NotAsked
    /\ deleteIdx = 1
    /\ deleteRequests = <<>>
    /\ cleanExit = 0
    /\ repo_names_manual = 0
    /\ scan_groups = <<>>
    /\ configRepos = 0
    /\ deleteAnswers = <<>>
    /\ deletedCount = 0
    /\ failedCount = 0

CleanInit ==
    /\ repo_names = 0
    /\ remoteRepos \in SUBSET (1..MaxTargets)
    /\ cleanDryRun \in BOOLEAN
    /\ cleanPc = "derive"
    /\ existing_repos = <<>>
    /\ confirmation = NotAsked
    /\ deleteIdx = 1
    /\ deleteRequests = <<>>
    /\ cleanExit = NoneVal
    /\ repo_names_manual \in 0..MaxTargets
    /\ IF repo_names_manual > 0
       THEN scan_groups = <<>> /\ configRepos = 0
       ELSE scan_groups \in ScanGroupLists /\ configRepos \in 0..1
    /\ deleteAnswers = <<>>
    /\ deletedCount = 0
    /\ failedCount = 0

inputVars == <<repo_names_manual, scan_groups, configRepos>>
countVars == <<deleteAnswers, deletedCount, failedCount>>

\* main: the names given with -r, or else those derived from the
\* configuration; with none derived the tool exits with status 1.
DeriveNames ==
    /\ CleanFrame
    /\ cleanPc = "derive"
    /\ repo_names' = IF repo_names_manual > 0 THEN repo_names_manual
                     ELSE RepoNamesFromConfig(scan_groups, configRepos)
    /\ IF repo_names' = 0
       THEN cleanPc' = "exited" /\ cleanExit' = 1
       ELSE cleanPc' = "list" /\ UNCHANGED cleanExit
    /\ UNCHANGED <<remoteRepos, cleanDryRun, existing_repos, confirmation, deleteIdx,
                   deleteRequests, inputVars, countVars>>

\* list_target_repos, then the two early exits of main: nothing found, and
\* the dry run, which lists the repositories and exits. A lookup that fails
\* otherwise than with 404 raises and ends the tool with status 1.
ListTargets(ok) ==
    /\ CleanFrame
    /\ cleanPc = "list"
    /\ IF ~ok
       THEN /\ cleanPc' = "exited"
            /\ cleanExit' = 1
            /\ UNCHANGED existing_repos
       ELSE /\ existing_repos' = FoundRepos(repo_names, remoteRepos)
            /\ IF FoundRepos(repo_names, remoteRepos) = <<>> \/ cleanDryRun
               THEN cleanPc' = "exited" /\ cleanExit' = 0
               ELSE cleanPc' = "confirm" /\ UNCHANGED cleanExit
    /\ UNCHANGED <<repo_names, remoteRepos, cleanDryRun, confirmation, deleteIdx, deleteRequests,
                   inputVars, countVars>>

\* if not confirm_deletion(existing_repos): ... sys.exit(0)
Confirm(typed) ==
    /\ CleanFrame
    /\ cleanPc = "confirm"
    /\ confirmation' = typed
    /\ IF ConfirmDeletion(typed)
       THEN cleanPc' = "delete" /\ UNCHANGED cleanExit
       ELSE cleanPc' = "exited" /\ cleanExit' = 0
    /\ UNCHANGED <<repo_names, remoteRepos, cleanDryRun, existing_repos, deleteIdx, deleteRequests,
                   inputVars, countVars>>

\* One pass of the delete loop: cleaner.delete_repo(repo['name'], dry_run=False)
\* issues the DELETE request and its return value is counted. A 2xx answer
\* removed the repository; a 404 says it is no longer there.
DeleteRepo(answer) ==
    /\ CleanFrame
    /\ cleanPc = "delete"
    /\ deleteIdx <= Len(existing_repos)
    /\ deleteRequests' = Append(deleteRequests, existing_repos[deleteIdx])
    /\ deleteAnswers' = Append(deleteAnswers, answer)
    /\ remoteRepos' = IF answer \in {"2xx", "404"}
                      THEN remoteRepos \ {existing_repos[deleteIdx]} ELSE remoteRepos
    /\ IF DeleteReturnsTrue(answer)
       THEN deletedCount' = deletedCount + 1 /\ UNCHANGED failedCount
       ELSE failedCount' = failedCount + 1 /\ UNCHANGED deletedCount
    /\ deleteIdx' = deleteIdx + 1
    /\ IF deleteIdx = Len(existing_repos)
       THEN cleanPc' = "exited" /\ cleanExit' = 0
       ELSE UNCHANGED <<cleanPc, cleanExit>>
    /\ UNCHANGED <<repo_names, cleanDryRun, existing_repos, confirmation, inputVars>>

CleanNext ==
    \/ DeriveNames
    \/ \E ok \in BOOLEAN : ListTargets(ok)
    \/ \E typed \in Confirmations : Confirm(typed)
    \/ \E answer \in DeleteAnswers : DeleteRepo(answer)

(***************************************************************************)
(* Session start: GitLabToGitHubMigrator.__init__ builds the GitHub client *)
(* (which looks up the user), then queries and displays the quota.         *)
(***************************************************************************)

\* resources.core of a complete answer of the rate_limit endpoint.
QuotaBody == [limit |-> 2000, remaining |-> 50, reset |-> 7]

\* The JSON the rate_limit endpoint may answer: complete, or lacking
\* 'resources', 'core', or one of the three fields of core.
QuotaShapes == {"full", "no_resources", "no_core", "no_limit", "no_remaining", "no_reset"}

\* What the quota query meets: a request that raises, or a response with its
\* quota headers and its JSON.
QuotaAnswers ==
    [ok : {FALSE}, remaining : {NoneVal}, limit : {NoneVal}, shape : {"none"}]
        \cup [ok : {TRUE}, remaining : {NoneVal, 300}, limit : {NoneVal, 1000},
              shape : QuotaShapes]
NoAnswer == [ok |-> FALSE, remaining |-> NoneVal, limit |-> NoneVal, shape |-> "unasked"]

\* The query raised inside get_rate_limit_status.
QueryFails(q) == ~q.ok \/ q.shape # "full"

\* A changed query: a failure resets the state to unknown.
ApplyQuotaBodyResets(info, shape) ==
    IF shape = "full"
    THEN [limit |-> QuotaBody.limit, remaining |-> QuotaBody.remaining,
          reset |-> QuotaBody.reset]
    ELSE [limit |-> NoneVal, remaining |-> NoneVal, reset |-> NoneVal]

\* core_limit = response['resources']['core'], then the three assignments in
\* order; the first missing key raises KeyError and ends them.
ApplyQuotaBody(info, shape) ==
    CASE shape \in {"no_resources", "no_core", "no_limit"} -> info
      [] shape = "no_remaining" -> [info EXCEPT !.limit = QuotaBody.limit]
      [] shape = "no_reset" ->
             [info EXCEPT !.limit = QuotaBody.limit, !.remaining = QuotaBody.remaining]
      [] OTHER -> [limit |-> QuotaBody.limit, remaining |-> QuotaBody.remaining,
                   reset |-> QuotaBody.reset]

\* The state the quota query leaves: the headers of its response are parsed
\* by _make_request, then the body is applied.
AfterQuotaQuery(info, q) ==
    IF ~q.ok THEN info
    ELSE ApplyQuotaBody(ParseRateLimitHeaders(info, q), q.shape)

\* What get_rate_limit_status returns: core_limit, or on a failure the
\* rate-limit state itself.
LimitInfo(info, q) ==
    IF QueryFails(q) THEN AfterQuotaQuery(info, q)
    ELSE [limit |-> QuotaBody.limit, remaining |-> QuotaBody.remaining,
          reset |-> QuotaBody.reset]

\* _display_rate_limit_status raises inside its try: `limit > 0` on None, or
\* fromtimestamp(None).
DisplayRaises(limit_info) ==
    limit_info.limit = NoneVal \/ (limit_info.limit > 0 /\ limit_info.reset = NoneVal)

SessIdle ==
    /\ sessPc = "constructed"
    /\ queryAnswer = NoAnswer
    /\ displayed = "none"

SessInit ==
    /\ sessPc = "user"
    /\ queryAnswer = NoAnswer
    /\ displayed = "none"

SessFrame ==
    UNCHANGED <<client, reqState, retry_count, attempts, wait_computed, lastSleep,
                sleepCount, lastResp, result, calls,
                pageVars, cmpVars, jobVars, srvVars, grantVars, cleanVars, nameVars,
                dashVars, allVars>>

\* GitHubAPI.__init__: self.user = self._get_authenticated_user(). A failure
\* leaves the constructor; a success has parsed the quota headers.
AuthenticateUser(r) ==
    /\ SessFrame
    /\ sessPc = "user"
    /\ IF r.kind = "ok" /\ DecodeBody(r.body) # "JSONDecodeError"
       THEN /\ rate_limit_info' = ParseRateLimitHeaders(rate_limit_info, r)
            /\ sessPc' = "query"
       ELSE /\ sessPc' = "failed"
            /\ UNCHANGED rate_limit_info
    /\ UNCHANGED <<queryAnswer, displayed>>

\* get_rate_limit_status: `except Exception: return self.rate_limit_info`.
GetRateLimitStatus(q) ==
    /\ SessFrame
    /\ sessPc = "query"
    /\ queryAnswer' = q
    /\ rate_limit_info' = AfterQuotaQuery(rate_limit_info, q)
    /\ sessPc' = "display"
    /\ UNCHANGED displayed

\* The rest of _display_rate_limit_status: an exception is logged as a warning.
DisplayRateLimitStatus ==
    /\ SessFrame
    /\ sessPc = "display"
    /\ displayed' = IF DisplayRaises(LimitInfo(rate_limit_info, queryAnswer))
                    THEN "warned" ELSE "shown"
    /\ sessPc' = "constructed"
    /\ UNCHANGED <<rate_limit_info, queryAnswer>>

\* The first governed call of the constructed migrator.
LaterCall ==
    /\ sessPc = "constructed"
    /\ displayed # "none"
    /\ calls = 0
    /\ StartRequest("migrate")

LaterAnswer(r) ==
    /\ sessPc = "constructed"
    /\ displayed # "none"
    /\ Attempt(r)

SessNext ==
    \/ \E r \in OkResponses \cup UrlErrors : AuthenticateUser(r)
    \/ \E q \in QuotaAnswers : GetRateLimitStatus(q)
    \/ DisplayRateLimitStatus
    \/ LaterCall
    \/ \E r \in OkResponses \cup UrlErrors : LaterAnswer(r)

(***************************************************************************)
(* Destination names of scanned projects, as the migrator, the cleanup     *)
(* tool and the dashboard derive them.  A string is a sequence of tokens.  *)
(***************************************************************************)

ProjectNames == {<<"app">>, <<"My App">>, <<"api">>}
ProjectPaths == {<<"app">>, <<"my-app">>, <<"api">>}
Namespaces == {<<"grp">>, <<"grp", "/", "sub">>}

\* A project of the GitLab API: path_with_namespace is namespace/path.
Projects ==
    {[name |-> n, path |-> p, path_with_namespace |-> ns \o <<"/">> \o p] :
        n \in ProjectNames, p \in ProjectPaths, ns \in Namespaces}

\* group_config.get('naming_rule', 'project_name'): "absent" is a group entry
\* without the key.
NamingRules == {"absent", "project_name", "path_with_namespace", "custom", "other"}
NamingRule(configured) == IF configured = "absent" THEN "project_name" ELSE configured

\* str.replace('/', '-')
ReplaceSlash(s) == [i \in 1..Len(s) |-> IF s[i] = "/" THEN "-" ELSE s[i]]

\* migrate.py, _scan_groups_and_generate_repo_list
MigratorName(project, rule) ==
    CASE rule = "project_name" -> project.name
      [] rule = "path_with_namespace" -> ReplaceSlash(project.path_with_namespace)
      [] rule = "custom" -> project.path
      [] OTHER -> project.name

\* cleanup_github.py, get_repo_names_from_config
CleanupName(project, rule) ==
    CASE rule = "project_name" -> project.name
      [] rule = "path_with_namespace" -> ReplaceSlash(project.path_with_namespace)
      [] OTHER -> project.name

\* dashboard.py, _get_all_repositories
DashboardName(project, rule) ==
    CASE rule = "project_name" -> project.name
      [] rule = "path_with_namespace" -> ReplaceSlash(project.path_with_namespace)
      [] OTHER -> project.name

NoName == <<>>
NoProject == [name |-> <<>>, path |-> <<>>, path_with_namespace |-> <<>>]

NameIdle ==
    /\ scanned = NoProject
    /\ naming_rule = "absent"
    /\ github_name = [t \in {"migrate", "cleanup", "dashboard"} |-> NoName]

NameInit ==
    /\ scanned \in Projects
    /\ naming_rule \in NamingRules
    /\ github_name = [t \in {"migrate", "cleanup", "dashboard"} |-> NoName]

NameFrame ==
    UNCHANGED <<govVars, pageVars, cmpVars, jobVars, srvVars, grantVars, cleanVars, sessVars,
                dashVars, allVars>>

MigratorScans ==
    /\ NameFrame
    /\ github_name["migrate"] = NoName
    /\ github_name' = [github_name EXCEPT
                          !["migrate"] = MigratorName(scanned, NamingRule(naming_rule))]
    /\ UNCHANGED <<scanned, naming_rule>>

CleanupScans ==
    /\ NameFrame
    /\ github_name["cleanup"] = NoName
    /\ github_name' = [github_name EXCEPT
                          !["cleanup"] = CleanupName(scanned, NamingRule(naming_rule))]
    /\ UNCHANGED <<scanned, naming_rule>>

DashboardScans ==
    /\ NameFrame
    /\ github_name["dashboard"] = NoName
    /\ github_name' = [github_name EXCEPT
                          !["dashboard"] = DashboardName(scanned, NamingRule(naming_rule))]
    /\ UNCHANGED <<scanned, naming_rule>>

NameNext == MigratorScans \/ CleanupScans \/ DashboardScans

(***************************************************************************)
(* Dashboard generation: dashboard.py, main.                               *)
(***************************************************************************)

\* load_migration_results: None for a missing file and for one that cannot be
\* read as JSON, the converted results otherwise.
LoadMigrationResults(file) == file = "stored"

\* The API requests of one pass of the loop of check_migration_status.
RepoCheckOutcomes == {"gitlab_fails", "not_created", "exists"}
RepoCheckRequests(o) ==
    CASE o = "gitlab_fails" -> <<"gitlab:project">>
      [] o = "not_created" -> <<"gitlab:project", "gitlab:branches", "github:repo">>
      [] OTHER -> <<"gitlab:project", "gitlab:branches", "github:repo", "github:branches">>

DashIdle ==
    /\ force_refresh = FALSE
    /\ storedResults = "absent"
    /\ dashRepos = 0
    /\ dashPc = "done"
    /\ dataSource = "none"
    /\ apiRequests = <<>>
    /\ dashIdx = 1

DashInit ==
    /\ force_refresh \in BOOLEAN
    /\ storedResults \in {"absent", "unreadable", "stored"}
    /\ dashRepos \in 1..MaxDashRepos
    /\ dashPc = "start"
    /\ dataSource = "none"
    /\ apiRequests = <<>>
    /\ dashIdx = 1

DashFrame ==
    UNCHANGED <<govVars, pageVars, cmpVars, jobVars, srvVars, grantVars, cleanVars, sessVars,
                nameVars, allVars>>

\* main: the stored results are used when --refresh is not given and the file
\* loads.
DashMain ==
    /\ DashFrame
    /\ dashPc = "start"
    /\ dataSource' = IF ~force_refresh /\ LoadMigrationResults(storedResults)
                     THEN "stored" ELSE "api"
    /\ dashPc' = "construct"
    /\ UNCHANGED <<force_refresh, storedResults, dashRepos, apiRequests, dashIdx>>

\* MigrationDashboard(config_path), on either path: __init__ asks GitHub for
\* the authenticated user; a failure of that request leaves main.
ConstructDashboard(ok) ==
    /\ DashFrame
    /\ dashPc = "construct"
    /\ apiRequests' = Append(apiRequests, "github:user")
    /\ dashPc' = IF ~ok THEN "failed"
                 ELSE IF dataSource = "stored" THEN "html" ELSE "check"
    /\ UNCHANGED <<force_refresh, storedResults, dashRepos, dataSource, dashIdx>>

\* check_migration_status, one repository.
CheckRepository(o) ==
    /\ DashFrame
    /\ dashPc = "check"
    /\ dashIdx <= dashRepos
    /\ apiRequests' = apiRequests \o RepoCheckRequests(o)
    /\ dashIdx' = dashIdx + 1
    /\ UNCHANGED <<force_refresh, storedResults, dashRepos, dataSource, dashPc>>

\* generate_html_dashboard(details, statistics, output_path)
GenerateHtml ==
    /\ DashFrame
    /\ \/ dashPc = "html"
       \/ dashPc = "check" /\ dashIdx > dashRepos
    /\ dashPc' = "done"
    /\ UNCHANGED <<force_refresh, storedResults, dashRepos, dataSource, apiRequests, dashIdx>>

DashNext ==
    \/ DashMain
    \/ \E ok \in BOOLEAN : ConstructDashboard(ok)
    \/ \E o \in RepoCheckOutcomes : CheckRepository(o)
    \/ GenerateHtml

(***************************************************************************)
(* check_sync.py, check_all_repositories: every configured repository is   *)
(* checked with check_repository_sync, then the results are counted.       *)
(***************************************************************************)

\* How the check of one repository goes: fetching the branches or the tags
\* raises, or both comparisons are made and the summary says whether the
\* repository is fully synced.
CheckOutcomes == {"branches_fail", "tags_fail", "synced", "issues"}
CheckRaises(o) == o \in {"branches_fail", "tags_fail"}

\* A changed failure result: the summary of a failed check says synced.
SyncStatusOnFailureSynced(repo, o) ==
    [repo |-> repo, raised |-> TRUE, branches |-> (o = "tags_fail"),
     is_fully_synced |-> "true"]

\* check_repository_sync on an exception: the sync_status built so far is
\* returned, with the branch comparison if only the tags failed, its summary
\* still {} (no is_fully_synced key).
SyncStatusOnFailure(repo, o) ==
    [repo |-> repo, raised |-> TRUE, branches |-> (o = "tags_fail"),
     is_fully_synced |-> "absent"]

\* What check_repository_sync returns.
SyncStatus(repo, o) ==
    IF CheckRaises(o) THEN SyncStatusOnFailure(repo, o)
    ELSE [repo |-> repo, raised |-> FALSE, branches |-> TRUE,
          is_fully_synced |-> IF o = "synced" THEN "true" ELSE "false"]

\* r['summary'].get('is_fully_synced') taken as a truth value.
CountsAsSynced(r) == r.is_fully_synced = "true"

AllIdle ==
    /\ checkRepos = 0
    /\ checkIdx = 1
    /\ checkResults = <<>>
    /\ fully_synced = NoneVal
    /\ has_issues = NoneVal

AllInit ==
    /\ checkRepos \in 1..MaxChecks
    /\ checkIdx = 1
    /\ checkResults = <<>>
    /\ fully_synced = NoneVal
    /\ has_issues = NoneVal

AllFrame ==
    UNCHANGED <<govVars, pageVars, cmpVars, jobVars, srvVars, grantVars, cleanVars, sessVars,
                nameVars, dashVars>>

\* One pass of the loop: results.append(self.check_repository_sync(...)).
CheckNextRepository(o) ==
    /\ AllFrame
    /\ checkIdx <= checkRepos
    /\ checkResults' = Append(checkResults, SyncStatus(checkIdx, o))
    /\ checkIdx' = checkIdx + 1
    /\ UNCHANGED <<checkRepos, fully_synced, has_issues>>

\* The overall summary after the loop.
PrintOverallSummary ==
    /\ AllFrame
    /\ checkIdx > checkRepos
    /\ checkRepos > 0
    /\ fully_synced = NoneVal
    /\ fully_synced' = Cardinality({i \in DOMAIN checkResults :
                                        CountsAsSynced(checkResults[i])})
    /\ has_issues' = Len(checkResults) - fully_synced'
    /\ UNCHANGED <<checkRepos, checkIdx, checkResults>>

AllNext ==
    \/ \E o \in CheckOutcomes : CheckNextRepository(o)
    \/ PrintOverallSummary

(***************************************************************************)
(* Specifications, one per part.                                           *)
(***************************************************************************)
OthersIdle == GrantIdle /\ CleanIdle /\ SessIdle /\ NameIdle /\ DashIdle /\ AllIdle

GovInit == GovIdle /\ PageIdle /\ CmpIdle /\ JobIdle /\ SrvIdle /\ OthersIdle
GovernorSpec == GovInit /\ [][GovNext]_vars

ListInit == GovIdle /\ PageInit /\ CmpIdle /\ JobIdle /\ SrvIdle /\ OthersIdle
PaginationSpec == ListInit /\ [][PageNext]_vars

SyncInit == GovIdle /\ PageIdle /\ CmpInit /\ JobIdle /\ SrvIdle /\ OthersIdle
CompareSpec == SyncInit /\ [][CmpNext]_vars

RunInit == GovIdle /\ PageIdle /\ CmpIdle /\ JobInit /\ SrvIdle /\ OthersIdle
TransferSpec == RunInit /\ [][JobNext]_vars

ServerInit == GovIdle /\ PageIdle /\ CmpIdle /\ JobIdle /\ SrvInit /\ OthersIdle
ServerSpec == ServerInit /\ [][SrvNext]_vars

PermissionsInit ==
    GovIdle /\ PageIdle /\ CmpIdle /\ JobIdle /\ SrvIdle /\ GrantInit /\ CleanIdle /\ SessIdle
        /\ NameIdle /\ DashIdle /\ AllIdle
GrantSpec == PermissionsInit /\ [][GrantNext]_vars

DeletionInit ==
    GovIdle /\ PageIdle /\ CmpIdle /\ JobIdle /\ SrvIdle /\ GrantIdle /\ CleanInit /\ SessIdle
        /\ NameIdle /\ DashIdle /\ AllIdle
CleanupSpec == DeletionInit /\ [][CleanNext]_vars

ConstructInit ==
    GovIdle /\ PageIdle /\ CmpIdle /\ JobIdle /\ SrvIdle /\ GrantIdle /\ CleanIdle /\ SessInit
        /\ NameIdle /\ DashIdle /\ AllIdle
SessionSpec == ConstructInit /\ [][SessNext]_vars

DeriveInit ==
    GovIdle /\ PageIdle /\ CmpIdle /\ JobIdle /\ SrvIdle /\ GrantIdle /\ CleanIdle /\ SessIdle
        /\ NameInit /\ DashIdle /\ AllIdle
NamingSpec == DeriveInit /\ [][NameNext]_vars

GenerateInit ==
    GovIdle /\ PageIdle /\ CmpIdle /\ JobIdle /\ SrvIdle /\ GrantIdle /\ CleanIdle /\ SessIdle
        /\ NameIdle /\ DashInit /\ AllIdle
DashboardSpec == GenerateInit /\ [][DashNext]_vars

CheckAllInit ==
    GovIdle /\ PageIdle /\ CmpIdle /\ JobIdle /\ SrvIdle /\ GrantIdle /\ CleanIdle /\ SessIdle
        /\ NameIdle /\ DashIdle /\ AllInit
CheckAllSpec == CheckAllInit /\ [][AllNext]_vars

(***************************************************************************)
(* Properties of the governed request (GovernorSpec).                      *)
(***************************************************************************)

C2_RetryOnlyWhenThrottled ==
    (reqState = "sending" /\ attempts > 0) => IsThrottling(lastResp)

(***************************************************************************)
(* Properties of the comparison (CompareSpec).                             *)
(***************************************************************************)
NamesOf(refs) == {refs[i].name : i \in 1..Len(refs)}
EntryOf(refs, nm) == refs[CHOOSE i \in 1..Len(refs) : refs[i].name = nm]
EntriesFor(res, nm) == {i \in 1..Len(res.details) : res.details[i].name = nm}

\* The status the classification rules give name nm, from the two commit ids.
ExpectedStatus(nm, inSrc, inDst, srcId, dstId) ==
    IF inSrc /\ inDst THEN (IF srcId = dstId THEN "Synced" ELSE "Different")
    ELSE IF inSrc THEN "Missing in GitHub"
    ELSE "Extra in GitHub"

ExpectedBranchStatus(nm) ==
    LET inSrc == nm \in NamesOf(gitlab_branches)
        inDst == nm \in NamesOf(github_branches)
    IN  ExpectedStatus(nm, inSrc, inDst,
            IF inSrc THEN EntryOf(gitlab_branches, nm).commit.id ELSE EmptySha,
            IF inDst THEN EntryOf(github_branches, nm).commit.sha ELSE EmptySha)

ExpectedTagStatus(nm) ==
    LET inSrc == nm \in NamesOf(gitlab_tags)
        inDst == nm \in NamesOf(github_tags)
    IN  ExpectedStatus(nm, inSrc, inDst,
            IF inSrc THEN EntryOf(gitlab_tags, nm).sha ELSE EmptySha,
            IF inDst THEN EntryOf(github_tags, nm).commit.sha ELSE EmptySha)

\* The two sides hold the same names with the same commit ids.
SameBranchSnapshot ==
    /\ NamesOf(gitlab_branches) = NamesOf(github_branches)
    /\ \A nm \in NamesOf(gitlab_branches) :
           EntryOf(gitlab_branches, nm).commit.id = EntryOf(github_branches, nm).commit.sha

\* C3: every ref name of the two lists gets exactly one status, the one the
\* rules give it (synced / different / missing / extra), for branches and for
\* tags; a snapshot compared with itself gives only synced.
C3_OneStatusPerName ==
    /\ branchResult # NotCompared =>
          /\ \A nm \in NamesOf(gitlab_branches) \cup NamesOf(github_branches) :
                /\ Cardinality(EntriesFor(branchResult, nm)) = 1
                /\ \A i \in EntriesFor(branchResult, nm) :
                       branchResult.details[i].status = ExpectedBranchStatus(nm)
          /\ SameBranchSnapshot =>
                \A i \in 1..Len(branchResult.details) :
                    branchResult.details[i].status = "Synced"
    /\ tagResult # NotCompared =>
          \A nm \in NamesOf(gitlab_tags) \cup NamesOf(github_tags) :
              /\ Cardinality(EntriesFor(tagResult, nm)) = 1
              /\ \A i \in EntriesFor(tagResult, nm) :
                     tagResult.details[i].status = ExpectedTagStatus(nm)

\* C3, the case: a compared pair of branch lists in which one name differs
\* although the short forms of its two ids agree, and another is missing.
C3_DifferentAndMissing ==
    /\ branchResult # NotCompared
    /\ \E i, j \in 1..Len(branchResult.details) :
          /\ branchResult.details[i].status = "Different"
          /\ branchResult.details[i].gitlab_commit = branchResult.details[i].github_commit
          /\ branchResult.details[j].status = "Missing in GitHub"

ResultNames(res) == {res.details[i].name : i \in 1..Len(res.details)}

\* C4: the names of the result are the union of the names of the two lists,
\* each once.
C4_NamesAreUnion ==
    /\ branchResult # NotCompared =>
          /\ ResultNames(branchResult) =
                 NamesOf(gitlab_branches) \cup NamesOf(github_branches)
          /\ Len(branchResult.details) = Cardinality(ResultNames(branchResult))
    /\ tagResult # NotCompared =>
          /\ ResultNames(tagResult) = NamesOf(gitlab_tags) \cup NamesOf(github_tags)
          /\ Len(tagResult.details) = Cardinality(ResultNames(tagResult))

\* C4, the case: overlapping lists, one name on both sides and one name on
\* the destination side only.
C4_OverlappingLists ==
    /\ branchResult # NotCompared
    /\ NamesOf(gitlab_branches) \cap NamesOf(github_branches) # {}
    /\ NamesOf(github_branches) \ NamesOf(gitlab_branches) # {}
    /\ Len(branchResult.details) = 2

(***************************************************************************)
(* Properties of the list fetch (PaginationSpec).                          *)
(***************************************************************************)

\* C5: a finished list fetch returns exactly the server's items in server
\* order; pages are requested in order 1, 2, ...; every page before the last
\* requested one was a full page, so nothing is requested after an empty or
\* short page; 237 items take exactly 3 requests.
C5_AllItemsNoExtraPage ==
    /\ \A j \in 1..Len(pageRequests) :
          /\ pageRequests[j] = j
          /\ j < Len(pageRequests) =>
                 Len(ServerPage(serverItems, pageRequests[j])) = per_page
    /\ listState = "returned" =>
          /\ all_results = [i \in 1..serverItems |-> i]
          /\ Len(pageRequests) = (serverItems \div per_page) + 1
    /\ listState # "fetching" => page = Len(pageRequests)
    /\ (listState = "returned" /\ serverItems = 237) =>
          (Len(all_results) = 237 /\ pageRequests = <<1, 2, 3>>)

\* C5, the case: pages of 100, 100 and 37 items were fetched.
C5_ThreePages ==
    /\ listState = "returned"
    /\ serverItems = 237
    /\ Len(pageRequests) = 3
    /\ Len(all_results) = 237

(***************************************************************************)
(* Properties of the transfer run (TransferSpec).                          *)
(***************************************************************************)

\* migrate_repository has returned for the current job.
JobEnded == pc = "returned" \/ (pc \in {"begin", "run_done"} /\ started # <<>>)

\* The current job holds a workspace and has not reached its cleanup yet.
JobHoldsWorkspace ==
    jobDir # NoDir /\ pc \in {"clone", "seturl", "push", "push_tags", "settle", "finally"}

\* C6, as stated: a job that created a workspace has removed it exactly once
\* when it ends, and the directory no longer exists.
C6_WorkspaceGone ==
    (JobEnded /\ jobDir # NoDir) =>
        /\ Len(removeCalls) = 1
        /\ removeCalls[1][1] = jobDir
        /\ jobDir \notin dirs

\* C6, amended: a job that created a workspace has called the removal exactly
\* once, on that directory, when it ends, on every exit path; the directory is
\* gone exactly when that removal succeeded (a failed removal is logged and
\* leaves it behind); until the job's end the directory is not removed.
C6_WorkspaceRemovalAttemptedOnce ==
    /\ (JobEnded /\ jobDir # NoDir) =>
          /\ Len(removeCalls) = 1
          /\ removeCalls[1][1] = jobDir
          /\ (jobDir \notin dirs) <=> removeCalls[1][2]
    /\ JobHoldsWorkspace => (removeCalls = <<>> /\ jobDir \in dirs)

\* C6, the case: the clone failed in a job that had created its workspace, and
\* the job ended with the workspace removed.
C6_CloneFailedWorkspaceRemoved ==
    /\ pc = "returned"
    /\ failedStep = "clone"
    /\ jobDir # NoDir
    /\ removeCalls = <<<<jobDir, TRUE>>>>
    /\ jobDir \notin dirs

\* C8: with the dry-run option set a job does the source lookup and nothing
\* else (no destination request, no grant, no topic, no workspace, no git
\* command, no removal), never completes a transfer, and a job whose lookup
\* succeeded ends through the dry-run return.
C8_DryRunOnlyLooksUp ==
    dry_run =>
        /\ trace \in {<<>>, <<"resolve">>}
        /\ dirs = {} /\ temp_dir = NoDir /\ jobDir = NoDir
        /\ removeCalls = <<>>
        /\ outcome # "completed"
        /\ (JobEnded /\ failedStep = "none") =>
               (outcome = "dry_run" /\ trace = <<"resolve">> /\ ReturnValue(outcome))

\* C8, the case: a dry-run job has ended after its lookup.
C8_DryRunJobEnded ==
    /\ dry_run
    /\ pc = "returned"
    /\ outcome = "dry_run"
    /\ trace = <<"resolve">>

\* C9, as stated: when the run is over every job of the list was started, in
\* list order, and the two counts add up to the number of jobs.
C9_EveryJobAttempted ==
    pc \in {"run_done", "aborted"} =>
        /\ started = [i \in 1..Len(repositories) |-> i]
        /\ success_count + fail_count = Len(repositories)

\* The steps of a complete job, in order, for the configured push mode.
StepOrder ==
    <<"resolve", "ensure", "grant", "topic", "workspace", "clone", "seturl">>
    \o (IF preserve_branches THEN <<"push_mirror">>
        ELSE IF preserve_tags THEN <<"push_all", "push_tags">>
        ELSE <<"push_all">>)
    \o <<"settle">>

IsPrefix(p, q) == Len(p) <= Len(q) /\ \A i \in 1..Len(p) : p[i] = q[i]

\* The steps whose failure ends the job.
FatalSteps == {"config", "resolve", "ensure", "workspace", "clone", "seturl",
               "push_mirror", "push_all", "push_tags"}

\* C10: the steps a job has executed are always a prefix of the step order
\* (resolve, ensure, grant, topic, workspace, clone, set-url, push, settle); a
\* failed step is the last step the job executes and makes the job failed; a
\* job completes only after all the steps.
C10_StepsInOrderFailureStops ==
    /\ IsPrefix(trace, StepOrder)
    /\ failedStep # "none" =>
          /\ outcome = "failed"
          /\ failedStep \in FatalSteps
          /\ pc \in {"finally", "returned", "begin", "run_done"}
          /\ IF failedStep = "config" THEN trace = <<>>
             ELSE trace # <<>> /\ trace[Len(trace)] = failedStep
    /\ outcome = "failed" => failedStep # "none"
    /\ outcome = "completed" => trace = StepOrder

\* C10, the case: the mirror push failed after a successful clone and the job
\* ended failed without settling.
C10_PushFailedJobEnded ==
    /\ pc = "returned"
    /\ failedStep = "push_mirror"
    /\ outcome = "failed"
    /\ Len(trace) = 8
    /\ Len(removeCalls) = 1

(***************************************************************************)
(* Properties of the control server (ServerSpec).                          *)
(***************************************************************************)

\* C7, as stated: at most one transfer run is in flight at any time.
C7_AtMostOneRun == migrateProcs <= 1

(***************************************************************************)
(* Properties of the ensure-destination step (TransferSpec).               *)
(***************************************************************************)

\* The create request failed because the repository already exists.
AlreadyExistsConflict(created) ==
    created.code \in {409, 422} /\ created.body = "name already exists on this account"

\* C11, as stated: once the ensure step has run, a creation that failed with an
\* already-exists conflict (409 or 422) was followed by one fetch of the
\* existing repository, and a creation that failed in any other way was
\* followed by no fetch and failed the job at that step.
C11_FallbackOnConflictOnly ==
    createResp # NoCreate =>
        /\ AlreadyExistsConflict(createResp) => getRepoCalls = 1
        /\ (createResp.code # 201 /\ ~AlreadyExistsConflict(createResp)) =>
               (getRepoCalls = 0 /\ failedStep = "ensure")

(***************************************************************************)
(* Properties of the waits and delays of the governed request              *)
(* (GovernorSpec).                                                         *)
(***************************************************************************)

\* The last response of the call in progress was answered by a retry.
Retried == reqState = "sending" /\ attempts > 0

\* C12: the wait computed before retry k (k = 0, 1, 2; the response was
\* received with retry_count = k) is the Retry-After value when the response
\* carries one, and otherwise 2, 4, 8 seconds for k = 0, 1, 2.
C12_ComputedWaitIsHeaderOrBackoff ==
    Retried =>
        LET k == retry_count - 1
        IN  /\ k \in {0, 1, 2}
            /\ lastResp.retry_after # NoneVal => wait_computed = lastResp.retry_after
            /\ lastResp.retry_after = NoneVal =>
                   wait_computed = (CASE k = 0 -> 2 [] k = 1 -> 4 [] k = 2 -> 8)

\* C12, the case: the third retry of a call, after a response without
\* Retry-After, computed 8 seconds.
C12_ThirdRetryBackoff ==
    /\ Retried
    /\ retry_count = 3
    /\ lastResp.retry_after = NoneVal
    /\ wait_computed = 8

\* C13, as stated: the wait before a retry is at least 60 seconds when the
\* retried response is a 403 secondary-limit response, and exactly the
\* computed value for every other retried response.
C13_FloorOnlyForSecondary403 ==
    Retried =>
        lastSleep = 1000 * (IF lastResp.code = 403 /\ MentionsSecondary(lastResp.body)
                            THEN (IF wait_computed > 60 THEN wait_computed ELSE 60)
                            ELSE wait_computed)

\* The call in progress ended with a successful response handed to the caller.
Succeeded == reqState = "returned" /\ lastResp.kind = "ok"

\* The quota is known once both the limit and the remaining count are.
QuotaKnown == rate_limit_info.remaining # NoneVal /\ rate_limit_info.limit # NoneVal

C15_StateRefreshedOnEveryResponse ==
    /\ (client = "migrate" /\ calls = 1 /\ attempts = 0) =>
          rate_limit_info = [limit |-> NoneVal, remaining |-> NoneVal, reset |-> NoneVal]
    /\ (client = "migrate" /\ attempts > 0
          /\ lastResp.limit # BadVal
          /\ lastResp.remaining \notin {NoneVal, BadVal}) =>
          rate_limit_info.remaining = lastResp.remaining

\* C20, as stated: for each of the three clients, a call whose last response
\* is a 404 hands None back to its caller instead of raising, and no other
\* error response is handed back as a result.
C20_NotFoundIsAbsent ==
    /\ (attempts > 0 /\ lastResp.kind = "http" /\ lastResp.code = 404) =>
          (reqState = "returned" /\ result = "None")
    /\ (reqState = "returned" /\ lastResp.kind = "http") => lastResp.code = 404

(***************************************************************************)
(* Properties of the summary and of the comparison result (CompareSpec).   *)
(***************************************************************************)
BranchNamesWith(st) ==
    {nm \in NamesOf(gitlab_branches) \cup NamesOf(github_branches) :
        ExpectedBranchStatus(nm) = st}
TagNamesWith(st) ==
    {nm \in NamesOf(gitlab_tags) \cup NamesOf(github_tags) : ExpectedTagStatus(nm) = st}

\* C16: is_fully_synced is true exactly when the different, missing and extra
\* counts of branches and of tags are all zero, whatever the synced counts, and
\* each count is the number of ref names of the two lists in that class.
C16_FullySyncedIffNothingOff ==
    summary # NoSummary =>
        /\ summary.is_fully_synced <=>
              /\ summary.branches.different = 0
              /\ summary.branches.missing = 0
              /\ summary.branches.extra = 0
              /\ summary.tags.different = 0
              /\ summary.tags.missing = 0
              /\ summary.tags.extra = 0
        /\ summary.branches =
              [synced    |-> Cardinality(BranchNamesWith("Synced")),
               different |-> Cardinality(BranchNamesWith("Different")),
               missing   |-> Cardinality(BranchNamesWith("Missing in GitHub")),
               extra     |-> Cardinality(BranchNamesWith("Extra in GitHub"))]
        /\ summary.tags =
              [synced    |-> Cardinality(TagNamesWith("Synced")),
               different |-> Cardinality(TagNamesWith("Different")),
               missing   |-> Cardinality(TagNamesWith("Missing in GitHub")),
               extra     |-> Cardinality(TagNamesWith("Extra in GitHub"))]

\* C16, the case: two source branches, one destination branch with the same
\* commit: one synced, one missing, not fully synced.
C16_SyncedButMissing ==
    /\ summary # NoSummary
    /\ Len(gitlab_branches) = 2 /\ Len(github_branches) = 1
    /\ summary.branches.synced = 1
    /\ summary.branches.missing = 1
    /\ ~summary.is_fully_synced

\* C17, as stated: with details requested, every branch classified as
\* different was compared with base = destination commit and head = source
\* commit, and when that call succeeded the entry carries a detail with the
\* response's ahead_by and behind_by and its first 10 commits at most.
C17_DivergenceDetailCarried ==
    (branchResult # NotCompared /\ show_behind_details) =>
        \A i \in 1..Len(branchResult.details) :
            LET e == branchResult.details[i]
                nm == e.name
            IN  e.status = "Different" =>
                  /\ [name |-> nm,
                      base |-> EntryOf(github_branches, nm).commit.sha,
                      head |-> EntryOf(gitlab_branches, nm).commit.id] \in compareCalls
                  /\ compareOutcome[nm].kind = "ok" =>
                        /\ e.behind_details.kind = "detail"
                        /\ e.behind_details.ahead_by = compareOutcome[nm].ahead_by
                        /\ e.behind_details.behind_by = compareOutcome[nm].behind_by
                        /\ Len(e.behind_details.commits) =
                               Min(10, Len(compareOutcome[nm].commits))
                        /\ \A j \in 1..Len(e.behind_details.commits) :
                               e.behind_details.commits[j] =
                                   Short8(compareOutcome[nm].commits[j])

\* C18: a branch whose compare call failed is in the result with the status
\* different and an error annotation as its detail, and the result still holds
\* every name of the two lists, once, with the status the rules give it.
C18_CompareFailureIsAnnotated ==
    branchResult # NotCompared =>
        \A nm \in DOMAIN compareOutcome :
            compareOutcome[nm].kind = "error" =>
              /\ \E i \in EntriesFor(branchResult, nm) :
                     /\ branchResult.details[i].status = "Different"
                     /\ branchResult.details[i].behind_details.kind = "error"
              /\ \A other \in NamesOf(gitlab_branches) \cup NamesOf(github_branches) :
                     /\ Cardinality(EntriesFor(branchResult, other)) = 1
                     /\ \A i \in EntriesFor(branchResult, other) :
                            branchResult.details[i].status = ExpectedBranchStatus(other)

\* C18, the case: the compare call of the first branch failed and the branch
\* after it is classified as missing.
C18_FailureThenMissing ==
    /\ branchResult # NotCompared
    /\ Len(branchResult.details) = 2
    /\ branchResult.details[1].behind_details.kind = "error"
    /\ branchResult.details[2].status = "Missing in GitHub"

\* The orders a list can come in.
Perms(seq) ==
    {[i \in 1..Len(seq) |-> seq[f[i]]] :
        f \in {g \in [1..Len(seq) -> 1..Len(seq)] :
                  \A a, b \in 1..Len(seq) : a # b => g[a] # g[b]}}

StrictlyAscending(res) ==
    \A i \in 1..(Len(res.details) - 1) : res.details[i].name < res.details[i + 1].name

\* C19: the entries of a result are in strictly ascending order of name, and
\* the result is the same for every order of the source list and every order
\* of the destination list, for branches and for tags.
C19_AscendingAndOrderIndependent ==
    /\ branchResult # NotCompared =>
          /\ StrictlyAscending(branchResult)
          /\ \A p \in Perms(gitlab_branches), q \in Perms(github_branches) :
                 CompareBranches(p, q, show_behind_details, compareOutcome) = branchResult
    /\ tagResult # NotCompared =>
          /\ StrictlyAscending(tagResult)
          /\ \A p \in Perms(gitlab_tags), q \in Perms(github_tags) :
                 CompareTags(p, q) = tagResult

\* C19, the case: the source list came in descending order of name and the
\* result has both names.
C19_SourceListDescending ==
    /\ branchResult # NotCompared
    /\ Len(gitlab_branches) = 2
    /\ gitlab_branches[1].name > gitlab_branches[2].name
    /\ Len(branchResult.details) = 2

(***************************************************************************)
(* Properties of the run-level result (TransferSpec).                      *)
(***************************************************************************)

\* C21, as stated: a job that ended through the dry-run short-circuit is
\* counted as simulated and not as success, so a run with the dry-run option
\* set, in which no job can complete a transfer, ends with no job counted as
\* success.
C21_SimulatedNotCountedAsSuccess ==
    (pc = "run_done" /\ dry_run) => success_count = 0

\* C22, as stated: when a run that processed at least one job has ended, a
\* results record has been written for the status poll and the dashboard to
\* read.
C22_ResultsRecordWritten ==
    (pc = "run_done" /\ started # <<>>) => resultsFile # NoFile

\* C23, as stated: every removal a job performs targets the directory that
\* job created; a job that created none removes nothing.
C23_CleanupOnlyOwnWorkspace ==
    \A i \in 1..Len(removeCalls) :
        jobDir # NoDir /\ removeCalls[i][1] = jobDir

(***************************************************************************)
(* Properties of the interrupt, the best-effort steps and the push         *)
(* (TransferSpec).                                                         *)
(***************************************************************************)

\* The run was ended by an interrupt and nothing of it goes on: the interrupt
\* was not counted as a job result, the interrupted job is the last one
\* started, no step is enabled and the exit status is 1.
InterruptEndedRun ==
    /\ outcome = "interrupted"
    /\ failedStep = "none"
    /\ success_count + fail_count = Len(started) - 1
    /\ started = [i \in 1..idx |-> i]
    /\ ~ENABLED JobNext
    /\ ExitStatus = 1

\* C24, as stated: after an interrupt during a git step the workspace of the
\* job is removed, the interrupt is not recorded as a job failure, no further
\* job is started and the process exits with a non-zero status.
C24_InterruptWorkspaceRemoved ==
    /\ failedStep # "interrupt"
    /\ pc = "interrupted" =>
          /\ jobDir \notin dirs
          /\ InterruptEndedRun

\* C24, amended: after an interrupt during a git step the removal of the job's
\* workspace is attempted exactly once, and the workspace is gone exactly when
\* that removal succeeded; the interrupt is not recorded as a job failure, no
\* further job is started and the process exits with a non-zero status.
C24_InterruptCleanupAttempted ==
    /\ failedStep # "interrupt"
    /\ outcome = "interrupted" => pc \in {"finally", "interrupted"}
    /\ pc = "interrupted" =>
          /\ jobDir # NoDir
          /\ Len(removeCalls) = 1
          /\ removeCalls[1][1] = jobDir
          /\ (jobDir \notin dirs) <=> removeCalls[1][2]
          /\ InterruptEndedRun

\* C24, the case: the first of two jobs was interrupted during its clone, its
\* workspace was removed and the run has ended.
C24_InterruptedDuringClone ==
    /\ pc = "interrupted"
    /\ trace = <<"resolve", "ensure", "grant", "topic", "workspace">>
    /\ idx = 1 /\ Len(repositories) = 2
    /\ removeCalls = <<<<jobDir, TRUE>>>>
    /\ jobDir \notin dirs

\* The current job has executed the step.
Executed(step) == \E i \in 1..Len(trace) : trace[i] = step

\* The position of the step in the steps the current job executed (0: none).
PosOf(step) ==
    IF Executed(step) THEN CHOOSE i \in 1..Len(trace) : trace[i] = step ELSE 0

\* How often the current job executed the step.
TimesExecuted(step) == Cardinality({i \in 1..Len(trace) : trace[i] = step})

\* C26: the topic step is attempted whether or not a grant failed, and neither
\* a failed topic update nor a missing namespace id fails the job: the job goes
\* on to the workspace acquisition (and from there to clone and push).
C26_TopicStepBestEffort ==
    /\ failedStep \notin {"grant", "topic"}
    /\ (Executed("grant") /\ pc # "topic") => (Executed("topic") /\ topicOutcome # "none")
    /\ Executed("topic") =>
          /\ topicOutcome \in {"no_namespace", "updated", "failed"}
          /\ pc = "workspace" \/ Executed("workspace")
    /\ outcome = "completed" => Executed("topic")

\* C26, the case: a grant failed, the topic update failed too, and the job
\* completed its transfer.
C26_BothFailedJobCompleted ==
    /\ grantFailed
    /\ topicOutcome = "failed"
    /\ outcome = "completed"
    /\ pc = "returned"
    /\ Executed("clone")

\* The pushes of the current job.
PushSteps == {"push_mirror", "push_all", "push_tags"}

\* C27: the remote is repointed before any push; with branch preservation
\* there is at most one push, the mirror push; without it the branches are
\* pushed first and the tags directly afterwards, only when tag preservation
\* is set; a completed job has made exactly the pushes of its configuration.
C27_PushOrder ==
    /\ \A s \in PushSteps : TimesExecuted(s) <= 1
    /\ \A s \in PushSteps :
          Executed(s) => (Executed("seturl") /\ PosOf("seturl") < PosOf(s))
    /\ IF preserve_branches
       THEN ~Executed("push_all") /\ ~Executed("push_tags")
       ELSE ~Executed("push_mirror")
    /\ Executed("push_tags") =>
          /\ preserve_tags
          /\ PosOf("push_tags") = PosOf("push_all") + 1
          /\ Executed("push_all")
    /\ outcome = "completed" =>
          /\ Executed("push_mirror") <=> preserve_branches
          /\ Executed("push_all") <=> ~preserve_branches
          /\ Executed("push_tags") <=> (~preserve_branches /\ preserve_tags)

\* C27, the case: a selective push with tag preservation completed: branches,
\* then tags.
C27_SelectivePushWithTags ==
    /\ ~preserve_branches /\ preserve_tags
    /\ outcome = "completed"
    /\ Executed("push_all") /\ Executed("push_tags")
    /\ PosOf("push_all") < PosOf("push_tags")

(***************************************************************************)
(* Properties of the topic update (GovernorSpec).                          *)
(***************************************************************************)

\* C29, as stated: a destination request of the transfer pipeline, the topic
\* update included, fails on a throttling response only when its retries are
\* used up.
C29_TopicUpdateRetriedOnThrottling ==
    (client \in {"migrate", "topics"} /\ reqState = "raised" /\ result = "ApiError"
        /\ IsThrottling(lastResp)) =>
        retry_count = max_retries

(***************************************************************************)
(* Properties of the permission grants (GrantSpec).                        *)
(***************************************************************************)

\* The grants of a list that name their principal, in list order.
NamedGrants(kind, entries) ==
    LET sel == SelectSeq([i \in 1..Len(entries) |-> i], LAMBDA i : entries[i])
    IN  [i \in 1..Len(sel) |-> <<kind, sel[i]>>]

\* The grant requests made so far: kind and position, in order.
GrantsAttempted == [i \in 1..Len(grantLog) |-> <<grantLog[i].kind, grantLog[i].pos>>]

\* C25, as stated: the step never ends in an exception, and when it has
\* returned every collaborator grant and every team grant listed on the job
\* (every entry that names its user or team) has been attempted, whatever
\* the results of the other grants.
C25_EveryListedGrantAttempted ==
    /\ grantPhase # "raised"
    /\ grantPhase = "returned" =>
          GrantsAttempted = NamedGrants("collaborator", collaborators)
                            \o NamedGrants("team", teams)

\* C25, amended: the step never ends in an exception, and when it has returned
\* every collaborator grant and, if an organization is configured, every team
\* grant listed on the job has been attempted exactly once, in list order,
\* whatever the results of the other grants; without an organization no team
\* grant is attempted.
C25_GrantsAttemptedIndependently ==
    /\ grantPhase # "raised"
    /\ IsPrefix(GrantsAttempted,
                NamedGrants("collaborator", collaborators)
                \o (IF org_name THEN NamedGrants("team", teams) ELSE <<>>))
    /\ grantPhase = "returned" =>
          GrantsAttempted = NamedGrants("collaborator", collaborators)
                            \o (IF org_name THEN NamedGrants("team", teams) ELSE <<>>)

\* C25, the case: the first collaborator grant failed, and the second one and a
\* team grant were attempted after it.
C25_FailureThenOtherGrants ==
    /\ grantPhase = "returned"
    /\ Len(grantLog) = 3
    /\ ~grantLog[1].ok
    /\ grantLog[2].kind = "collaborator"
    /\ grantLog[3].kind = "team"

(***************************************************************************)
(* Properties of the cleanup tool (CleanupSpec).                           *)
(***************************************************************************)

\* C28: a DELETE request is issued only in a run without the dry-run option in
\* which exactly DELETE was typed at the prompt; a dry run asks nothing and
\* deletes nothing; every DELETE request is for a repository the lookup found,
\* at most once each.
C28_DeleteOnlyWhenConfirmed ==
    /\ deleteRequests # <<>> => (~cleanDryRun /\ confirmation = "DELETE")
    /\ cleanDryRun => (confirmation = NotAsked /\ cleanPc \in {"derive", "list", "exited"})
    /\ IsPrefix(deleteRequests, existing_repos)
    /\ existing_repos \in {<<>>, FoundRepos(repo_names, remoteRepos \cup
                                  {deleteRequests[i] : i \in 1..Len(deleteRequests)})}

\* C28, the case: three names were given, two of them exist, DELETE was typed
\* and both were deleted.
C28_TwoOfThreeDeleted ==
    /\ cleanPc = "exited"
    /\ repo_names = 3
    /\ Len(existing_repos) = 2
    /\ deleteRequests = existing_repos
    /\ remoteRepos = {}

(***************************************************************************)
(* Properties of the source tag payload (CompareSpec).                     *)
(***************************************************************************)

\* C30, as stated: the tag comparison never fails on the shape of a source
\* tag, and once it has run every source tag has an entry, whose source commit
\* is the sentinel when the tag has no commit id (no commit and no target, or
\* a null commit entry).
C30_TagShapeNeverFails ==
    /\ ~checkFailed
    /\ tagResult # NotCompared =>
          \A i \in 1..Len(gitlab_tags) :
              \E j \in 1..Len(tagResult.details) :
                  /\ tagResult.details[j].name = gitlab_tags[i].name
                  /\ tagResult.details[j].status # ""
                  /\ gitlab_tags[i].shape \in {"none", "null_commit"} =>
                         tagResult.details[j].gitlab_commit = Dash

(***************************************************************************)
(* Properties of the quota headers of a successful response (GovernorSpec).*)
(***************************************************************************)

C32_FailedQueryKeepsState ==
    [][(sessPc = "query" /\ sessPc' = "display" /\ QueryFails(queryAnswer')
            /\ queryAnswer'.limit = NoneVal /\ queryAnswer'.remaining = NoneVal) =>
          rate_limit_info' = rate_limit_info]_vars

\* C32, amended: the quota query never ends the construction (only the user
\* lookup can), and the display step completes it; after a failed query the
\* state is what it was, except for the quota headers of the response and the
\* body fields assigned before the first missing one (limit, then remaining);
\* reset is never set by a failed query; and a later governed call that
\* succeeds while the quota is unknown sleeps the default 0.5 s.
C32_QueryFailureNotFatal ==
    /\ [][/\ sessPc = "query" => sessPc' = "display"
          /\ sessPc = "display" => sessPc' = "constructed"
          /\ (sessPc = "query" /\ QueryFails(queryAnswer')) =>
                LET q == queryAnswer'
                IN  /\ ~q.ok => rate_limit_info' = rate_limit_info
                    /\ rate_limit_info'.reset = rate_limit_info.reset
                    /\ rate_limit_info'.limit =
                           IF q.shape \in {"no_remaining", "no_reset"} THEN QuotaBody.limit
                           ELSE IF q.limit # NoneVal THEN q.limit
                           ELSE rate_limit_info.limit
                    /\ rate_limit_info'.remaining =
                           IF q.shape = "no_reset" THEN QuotaBody.remaining
                           ELSE IF q.remaining # NoneVal THEN q.remaining
                           ELSE rate_limit_info.remaining]_vars
    /\ [](sessPc = "failed" => queryAnswer = NoAnswer)
    /\ []((displayed # "none" /\ QueryFails(queryAnswer) /\ Succeeded /\ ~QuotaKnown) =>
              lastSleep = DefaultDelayMs)

\* A query answered without 'remaining' left the limit of the body behind; the
\* display warned, the migrator was constructed, and its first governed call
\* slept 0.5 s.
C32_PartialAnswerThenDefaultDelay ==
    /\ sessPc = "constructed" /\ displayed = "warned"
    /\ queryAnswer.ok /\ queryAnswer.shape = "no_remaining"
    /\ queryAnswer.limit = NoneVal /\ queryAnswer.remaining = NoneVal
    /\ rate_limit_info = [limit |-> QuotaBody.limit, remaining |-> NoneVal, reset |-> NoneVal]
    /\ Succeeded /\ lastResp.remaining = NoneVal /\ lastResp.limit = NoneVal
    /\ lastSleep = DefaultDelayMs

\* C33: a 2xx response of the destination client whose body is not JSON fails
\* the request with a protocol error that carries a bounded excerpt of the
\* body (the kind of error GitLabAPI._make_request raises), not with the bare
\* error of the JSON decoder.
C33_UndecodableBodyIsProtocolError ==
    (reqState = "raised" /\ lastResp.kind = "ok" /\ lastResp.body = "garbage"
        /\ client = "migrate") =>
        result = "ProtocolError"

\* C34: for every project and every naming rule value, the name the cleanup
\* tool derives and the name the dashboard derives equal the name the
\* migrator derives.
C34_SameNameInEveryTool ==
    (\A t \in DOMAIN github_name : github_name[t] # NoName) =>
        /\ github_name["cleanup"] = github_name["migrate"]
        /\ github_name["dashboard"] = github_name["migrate"]

\* C35: a dashboard generated from the stored results has made no request to
\* the GitLab or GitHub API; requests are made only when the file is absent
\* or unreadable, or when refresh was requested.
C35_StoredResultsNeedNoRequest ==
    /\ dataSource = "stored" => apiRequests = <<>>
    /\ apiRequests # <<>> => (force_refresh \/ storedResults \in {"absent", "unreadable"})

\* C36: a status poll is answered in every server state; it starts no process
\* and leaves the results file as it is; its answer says what the file holds;
\* and a poll that directly follows a poll gets the same answer.
C36_PollChangesNothing ==
    [][(requests' = requests + 1 /\ lastResponse'.path = "status") =>
          /\ migrateProcs' = migrateProcs
          /\ cleanupProcs' = cleanupProcs
          /\ resultsFile' = resultsFile
          /\ (lastResponse'.status = "available") = (resultsFile \notin {NoFile, UnreadableFile})
          /\ (lastResponse'.status = "no_data") = (resultsFile = NoFile)
          /\ lastResponse'.timestamp = IF resultsFile = UnreadableFile THEN NoFile
                                       ELSE resultsFile
          /\ lastResponse.path = "status" => lastResponse' = lastResponse]_vars

\* With two transfer runs in flight and no results file, two polls in a row
\* were both answered 'no_data'.
C36_PolledTwiceWhileRunning ==
    /\ migrateProcs = 2
    /\ requests = 4
    /\ resultsFile = NoFile
    /\ lastResponse = [path |-> "status", code |-> 200, status |-> "no_data",
                       timestamp |-> NoFile]

\* C37: when a transfer run started by the server's migrate action ends, the
\* results file then carries a timestamp, and one different from before the
\* run, so that the next status poll reports the change.
C37_CompletionChangesTimestamp ==
    [][(migrateProcs' = migrateProcs - 1) =>
          /\ resultsFile' \notin {NoFile, UnreadableFile}
          /\ resultsFile' # resultsFile]_vars

\* C38: a check that raised does not stop the run: result i is that of
\* repository i, so when the loop ends there is exactly one result per
\* configured repository, in order; and the count of fully synced
\* repositories, once printed, counts no repository whose check raised.
C38_FailedCheckDoesNotStopRun ==
    /\ Len(checkResults) = checkIdx - 1
    /\ checkIdx <= checkRepos + 1
    /\ \A i \in DOMAIN checkResults : checkResults[i].repo = i
    /\ fully_synced # NoneVal =>
          /\ Len(checkResults) = checkRepos
          /\ fully_synced <= Cardinality({i \in DOMAIN checkResults :
                                              ~checkResults[i].raised})
          /\ has_issues >= Cardinality({i \in DOMAIN checkResults :
                                            checkResults[i].raised})
          /\ fully_synced + has_issues = checkRepos

\* The first of three checks raised, the other two found the repositories
\* synced: three results, two counted as fully synced.
C38_FirstFailedOthersChecked ==
    /\ checkRepos = 3
    /\ Len(checkResults) = 3
    /\ checkResults[1].raised /\ ~checkResults[2].raised /\ ~checkResults[3].raised
    /\ fully_synced = 2 /\ has_issues = 1

\* C39: when the names are derived from the configuration and the scan of a
\* group fails, no name is derived, whatever the other groups and the
\* repositories list hold; the tool exits with status 1 and after that step
\* nothing is looked up or deleted.
C39_FailedScanEmptiesTargets ==
    /\ []((repo_names_manual = 0 /\ ScanFails(scan_groups) /\ cleanPc # "derive") =>
              /\ repo_names = 0
              /\ cleanPc = "exited" /\ cleanExit = 1
              /\ existing_repos = <<>> /\ deleteRequests = <<>>)
    /\ [][(repo_names_manual = 0 /\ ScanFails(scan_groups) /\ cleanPc # "derive") =>
              UNCHANGED cleanVars]_vars

\* The first group gave a project, the scan of the second failed, and the
\* repositories list has an entry: no name is left and the tool has exited.
C39_SecondGroupFailed ==
    /\ repo_names_manual = 0
    /\ scan_groups = <<"one", "fail">>
    /\ configRepos = 1
    /\ remoteRepos = {1, 2}
    /\ cleanPc = "exited" /\ cleanExit = 1
    /\ repo_names = 0

\* C40: the success count of the delete loop counts the DELETE requests that
\* were answered 2xx, and the failure count all the others, a 404 included.
C40_SuccessOnly2xx ==
    /\ deletedCount = Cardinality({i \in DOMAIN deleteAnswers : deleteAnswers[i] = "2xx"})
    /\ failedCount = Cardinality({i \in DOMAIN deleteAnswers : deleteAnswers[i] # "2xx"})
====
